---- MODULE Spec2Model ----
(***************************************************************************)
(* A model of the typed persistence engine of the dixit recorder:          *)
(*   - the Persistable protocol and its built-in and derived               *)
(*     implementations (record_persist/src/lib.rs,                         *)
(*     record_persist_derive/src/parquet.rs),                              *)
(*   - the column-major RowBuffer (recorder_persist/src/row.rs),           *)
(*   - the TableWriter and its RowBuilder (record_persist/src/writer.rs),  *)
(*   - the table directory on disk, as a map from file names to files.     *)
(***************************************************************************)
EXTENDS Integers, Sequences, FiniteSets, TLC

VARIABLES
    cfg,        \* the PersistConfig handed to TableWriter::new
    dir,        \* the table directory: file name -> file
    dirExists,  \* whether the table directory exists
    w,          \* the TableWriter: flush_size, file_index, enabled, fields, schema, auto_flush
    buf,        \* the RowBuffer: rows (lanes) and current_col
    pc,         \* where the caller is: none / idle / begun / recorded / ended / dropped / panicked
    memo,       \* the FIELD_COUNT memo of Persistable::field_count: type name -> count
    probe,      \* the last direct call of schema / append / field_count and its result
    env,        \* what the run may do: rows, faults, record types, option choices, flush size
    faults,     \* I/O failures injected so far
    hist,       \* history: recorded values, call results, files created, protocol flags
    run,        \* the flush under way when its steps are taken one by one
    chan        \* the channel of main and its two tasks: queue, ends, task positions

vars == <<cfg, dir, dirExists, w, buf, pc, memo, probe, env, faults, hist, run, chan>>

-----------------------------------------------------------------------------
(* Bounds of the model *)

\* rows recorded in one run of the writer
MaxRows == 2
\* the largest flush_size tried (the code fixes flush_size to BUFFERED_ROWS)
MaxFlushSize == 2
\* I/O failures injected in one run
MaxFaults == 1
\* the capacity the model gives the channel of main (mpsc::channel(100))
Capacity == 2
\* the records the websocket task hands to the channel in one run
MaxSent == 4
\* rows handed to a writer that is not enabled, or enabled by an empty whitelist
MaxOtherRows == 1
\* calls of one run that leave the row protocol (begin, one record of the
\* session's record type, end, builder dropped)
MaxMisuse == 1
\* calls that may flush are made while file_index is below this
MaxFiles == 5
\* rows recorded in the roll scenario (flush_size 3, 7 rows)
RollRows == 7
\* flush_size of the roll scenario
RollFlushSize == 3
\* the largest file index the name scan may reach in the model
MaxIndex == 12
\* files another process creates in the table directory during one run
MaxOthers == 2
\* the largest index of a file another process creates
MaxOtherIndex == 2

\* seeds of the values the type probes append
MaxSeed == 2

\* the width the model gives the 32-bit integers (i32, u32)
Bits32 == 8
\* the width the model gives the 64-bit integers (i64, u64)
Bits64 == 12

\* const BUFFERED_ROWS: usize = 1_000_000, the flush_size every writer is built with
BUFFERED_ROWS == 1000000

-----------------------------------------------------------------------------
(* Small helpers *)


RECURSIVE SumSeq(_)
SumSeq(s) == IF s = <<>> THEN 0 ELSE Head(s) + SumSeq(Tail(s))

RECURSIVE Pow2(_)
Pow2(n) == IF n = 0 THEN 1 ELSE 2 * Pow2(n - 1)

\* Option<&str>: None, or Some(s)
NoPrefix == [some |-> FALSE, s |-> ""]
SomePrefix(s) == [some |-> TRUE, s |-> s]

-----------------------------------------------------------------------------
(* The Persistable types of the model.  A type is its index in TypeTable;   *)
(* a, b are the indices of the types it is built from.                      *)

Ty(name, kind, phys, tag, a, b, n, fields, variants) ==
    [name |-> name, kind |-> kind, phys |-> phys, tag |-> tag, a |-> a, b |-> b,
     n |-> n, fields |-> fields, variants |-> variants]

\* a field of a derived struct: its label, its type, #[persist(ignore = ..)],
\* #[persist_timestamp(unit = ..)]
Fld(name, ty, ignore, logical) ==
    [name |-> name, ty |-> ty, ignore |-> ignore, logical |-> logical]

T_u32 == 1
T_f64 == 2
T_bool == 3
T_String == 4
T_u64 == 5
T_i64 == 6
T_Vec == 7
T_DateTime == 8
T_Duration == 9
T_Decimal == 10
T_PriceLevel == 11
T_PairLevels == 12
T_PairF64 == 13
T_OptPairF64 == 14
T_OptF64 == 15
T_ArrU32x2 == 16
T_Side == 17
T_Tick == 18
T_Msg == 19
T_Book == 20
T_Pt == 21
T_OptOptF64 == 22
T_OptLevel == 23
T_i32 == 24
T_f32 == 25
T_Quote == 26
T_Fill == 27
T_RfqMatch == 28

TypeTable == <<
    Ty("u32", "prim", "INT32", "UInt", 0, 0, 0, <<>>, <<>>),
    Ty("f64", "prim", "DOUBLE", "Double", 0, 0, 0, <<>>, <<>>),
    Ty("bool", "prim", "BOOLEAN", "Bool", 0, 0, 0, <<>>, <<>>),
    Ty("alloc::string::String", "str", "BYTE_ARRAY", "Str", 0, 0, 0, <<>>, <<>>),
    Ty("u64", "prim", "INT64", "ULong", 0, 0, 0, <<>>, <<>>),
    Ty("i64", "prim", "INT64", "Long", 0, 0, 0, <<>>, <<>>),
    Ty("alloc::vec::Vec<u32>", "coll", "BYTE_ARRAY", "Str", T_u32, 0, 0, <<>>, <<>>),
    Ty("chrono::DateTime<Utc>", "datetime", "INT64", "ULong", 0, 0, 0, <<>>, <<>>),
    Ty("core::time::Duration", "duration", "INT64", "ULong", T_u64, 0, 0, <<>>, <<>>),
    Ty("rust_decimal::Decimal", "decimal", "DOUBLE", "Double", 0, 0, 0, <<>>, <<>>),
    Ty("PriceLevel", "struct", "", "", 0, 0, 0,
       <<Fld("price", T_f64, FALSE, "none"), Fld("quantity", T_f64, FALSE, "none")>>, <<>>),
    Ty("(PriceLevel, PriceLevel)", "pair", "", "", T_PriceLevel, T_PriceLevel, 0, <<>>, <<>>),
    Ty("(f64, f64)", "pair", "", "", T_f64, T_f64, 0, <<>>, <<>>),
    Ty("Option<(f64, f64)>", "opt", "", "", T_PairF64, 0, 0, <<>>, <<>>),
    Ty("Option<f64>", "opt", "", "", T_f64, 0, 0, <<>>, <<>>),
    Ty("[u32; 2]", "arr", "", "", T_u32, 0, 2, <<>>, <<>>),
    Ty("Side", "enum", "BYTE_ARRAY", "Str", 0, 0, 0, <<>>, <<"Buy", "Sell">>),
    Ty("Tick", "struct", "", "", 0, 0, 0,
       <<Fld("id", T_u32, FALSE, "none"), Fld("px", T_OptF64, FALSE, "none")>>, <<>>),
    Ty("Msg", "struct", "", "", 0, 0, 0,
       <<Fld("text", T_String, FALSE, "none")>>, <<>>),
    Ty("Book", "struct", "", "", 0, 0, 0,
       <<Fld("tob", T_PairLevels, FALSE, "none"), Fld("x", T_OptPairF64, FALSE, "none"),
         Fld("tmp", T_bool, TRUE, "none"), Fld("ts", T_u64, FALSE, "TS_NANOS"),
         Fld("side", T_Side, FALSE, "none"), Fld("lots", T_ArrU32x2, FALSE, "none")>>, <<>>),
    Ty("Pt", "tstruct", "", "", 0, 0, 0,
       <<Fld("0", T_f64, FALSE, "none"), Fld("1", T_u32, TRUE, "none")>>, <<>>),
    Ty("Option<Option<f64>>", "opt", "", "", T_OptF64, 0, 0, <<>>, <<>>),
    Ty("Option<PriceLevel>", "opt", "", "", T_PriceLevel, 0, 0, <<>>, <<>>),
    Ty("i32", "prim", "INT32", "Int", 0, 0, 0, <<>>, <<>>),
    Ty("f32", "prim", "FLOAT", "Float", 0, 0, 0, <<>>, <<>>),
    Ty("Quote", "struct", "", "", 0, 0, 0,
       <<Fld("id", T_u32, FALSE, "none"), Fld("vol", T_u64, FALSE, "none"),
         Fld("live", T_bool, FALSE, "none"), Fld("level", T_PriceLevel, FALSE, "none"),
         Fld("spread", T_PairF64, FALSE, "none"), Fld("tags", T_Vec, FALSE, "none"),
         Fld("name", T_String, FALSE, "none"), Fld("at", T_DateTime, FALSE, "none")>>,
       <<>>),
    Ty("Fill", "struct", "", "", 0, 0, 0,
       <<Fld("id", T_u32, FALSE, "none"), Fld("fee", T_Decimal, FALSE, "none")>>, <<>>),
    Ty("dixit::coinbase::RfqMatch", "struct", "", "", 0, 0, 0,
       <<Fld("channel", T_String, FALSE, "none"),
         Fld("maker_order_id", T_String, FALSE, "none"),
         Fld("taker_order_id", T_String, FALSE, "none"),
         Fld("time", T_DateTime, FALSE, "none"),
         Fld("trade_id", T_u64, FALSE, "none"),
         Fld("product_id", T_String, FALSE, "none"),
         Fld("size", T_Decimal, FALSE, "none"),
         Fld("price", T_Decimal, FALSE, "none"),
         Fld("side", T_String, FALSE, "none")>>, <<>>)
>>

Types == 1..Len(TypeTable)

\* the type whose std::any::type_name is `name`
TypeNamed(name) == CHOOSE t \in Types : TypeTable[t].name = name

-----------------------------------------------------------------------------
(* Leaf column descriptors and Field values *)

Leaf(name, phys, rep, logical) ==
    [name |-> name, phys |-> phys, rep |-> rep, logical |-> logical]

\* parquet::record::Field, every tag with the same shape
Fd(tag, num, str) == [tag |-> tag, num |-> num, str |-> str]
Null == Fd("Null", 0, "")

\* Type::primitive_type_builder(..).build().unwrap(): a logical type that fits
\* the physical type builds; for one that does not (DOUBLE annotated STRING)
\* the verdict is the parquet library's, which the sources do not fix:
\* env.strict is whether build() returns Err there, and the unwrap() panics
BuildOk(phys, logical) ==
    CASE logical = "none" -> TRUE
      [] logical = "STRING" -> phys = "BYTE_ARRAY" \/ ~env.strict
      [] logical \in {"TS_NANOS", "TS_MICROS", "TS_MILLIS"} ->
            phys = "INT64" \/ ~env.strict
      [] OTHER -> FALSE

\* a leaf builder that drops the caller's repetition
RepOrRequired(rep) == "REQUIRED"

\* repetition_override.unwrap_or(Repetition::REQUIRED)
RepOr(rep) == IF rep = "none" THEN "REQUIRED" ELSE rep

\* the result of a schema call: ok = it returned (did not panic), leaves = what it pushed
SchemaOk(leaves) == [ok |-> TRUE, leaves |-> leaves]
SchemaPanic == [ok |-> FALSE, leaves |-> <<>>]

\* one primitive leaf: prefix.expect("name must be set"), then build().unwrap()
PrimLeaf(prefix, phys, rep, logical) ==
    IF ~prefix.some \/ ~BuildOk(phys, logical)
    THEN SchemaPanic
    ELSE SchemaOk(<<Leaf(prefix.s, phys, RepOr(rep), logical)>>)

\* two schema calls in a row on the same sink
SchemaThen(r1, r2) ==
    IF r1.ok /\ r2.ok THEN SchemaOk(r1.leaves \o r2.leaves) ELSE SchemaPanic

\* labels joined by a dot
JoinedDotted(prefix, label) ==
    IF prefix.some THEN prefix.s \o "." \o label ELSE label

\* format!("{}_{}", p, label) under a prefix, the bare label without one
Joined(prefix, label) ==
    IF prefix.some THEN prefix.s \o "_" \o label ELSE label

RECURSIVE Schema(_, _, _, _)
RECURSIVE SchemaOf(_, _, _, _)
RECURSIVE SchemaFields(_, _, _, _, _)
RECURSIVE SchemaArray(_, _, _, _, _, _)

\* the derive generator's schema body for a struct with fields fs: those from
\* i on (a tuple struct labels its fields by position and ignores `ignore`)
SchemaFields(fs, i, prefix, rep, named) ==
    IF i > Len(fs) THEN SchemaOk(<<>>)
    ELSE IF named /\ fs[i].ignore
    THEN SchemaFields(fs, i + 1, prefix, rep, named)
    ELSE SchemaThen(
             Schema(fs[i].ty,
                    SomePrefix(Joined(prefix,
                                      IF named THEN fs[i].name ELSE ToString(i - 1))),
                    rep, fs[i].logical),
             SchemaFields(fs, i + 1, prefix, rep, named))

\* impl Persistable for [T; N]: the elements from i on
SchemaArray(elem, i, n, prefix, rep, logical) ==
    IF i >= n THEN SchemaOk(<<>>)
    ELSE SchemaThen(
             Schema(elem, SomePrefix(Joined(prefix, ToString(i))), rep, logical),
             SchemaArray(elem, i + 1, n, prefix, rep, logical))

\* the schema function of the type with table entry d
SchemaOf(d, prefix, rep, logical) ==
    CASE d.kind = "prim" -> PrimLeaf(prefix, d.phys, rep, logical)
      [] d.kind \in {"str", "coll"} -> PrimLeaf(prefix, "BYTE_ARRAY", rep, "STRING")
      [] d.kind = "datetime" -> PrimLeaf(prefix, "INT64", rep, "TS_NANOS")
      [] d.kind = "decimal" -> PrimLeaf(prefix, "DOUBLE", rep, "STRING")
      [] d.kind = "duration" ->
            Schema(d.a,
                   IF prefix.some THEN SomePrefix(prefix.s \o "_ns") ELSE NoPrefix,
                   rep, logical)
      [] d.kind = "opt" -> Schema(d.a, prefix, "OPTIONAL", logical)
      [] d.kind = "pair" ->
            IF prefix.some
            THEN SchemaThen(Schema(d.a, SomePrefix(prefix.s \o "_0"), rep, logical),
                            Schema(d.b, SomePrefix(prefix.s \o "_1"), rep, logical))
            ELSE SchemaThen(Schema(d.a, NoPrefix, rep, logical),
                            Schema(d.b, NoPrefix, rep, logical))
      [] d.kind = "arr" -> SchemaArray(d.a, 0, d.n, prefix, rep, logical)
      [] d.kind = "struct" -> SchemaFields(d.fields, 1, prefix, rep, TRUE)
      [] d.kind = "tstruct" -> SchemaFields(d.fields, 1, prefix, rep, FALSE)
      [] d.kind = "enum" ->
            IF ~BuildOk("BYTE_ARRAY", "STRING") THEN SchemaPanic
            ELSE SchemaOk(<<Leaf(IF prefix.some THEN prefix.s ELSE d.name,
                                 "BYTE_ARRAY", RepOr(rep), "STRING")>>)

\* T::schema(fields, prefix, repetition_override, logical_type)
Schema(t, prefix, rep, logical) == SchemaOf(TypeTable[t], prefix, rep, logical)

\* what field_count computes on a miss: Self::schema(&mut fields, Some("any"), None, None)
CountLeaves(t) == Schema(t, SomePrefix("any"), "none", "none")

-----------------------------------------------------------------------------
(* field_count and append.  A value of a type is [n, opts]: n seeds the      *)
(* primitive leaves, opts are the Some (TRUE) / None (FALSE) choices of the  *)
(* Option nodes in the order append meets them (Some once they run out).     *)

TwoTo63 == Pow2(Bits64 - 1)
TwoTo64 == Pow2(Bits64)
TwoTo31 == Pow2(Bits32 - 1)
TwoTo32 == Pow2(Bits32)

Value(n, opts) == [n |-> n, opts |-> opts]

\* the FIELD_COUNT map behind its Mutex; poisoned once a holder panicked
EmptyMemo == [map |-> [k \in {} |-> 0], poisoned |-> FALSE]

\* the result of a field_count call: ok = it returned, its value, the memo afterwards
Counted(ok, count, m) == [ok |-> ok, count |-> count, memo |-> m]

\* field_count on a miss: r is what Self::schema left in the fresh sink; a
\* panic of schema poisons the Mutex the caller holds
FieldCountMiss(name, r, m) ==
    IF ~r.ok
    THEN Counted(FALSE, 0, [m EXCEPT !.poisoned = TRUE])
    ELSE Counted(TRUE, Len(r.leaves), [m EXCEPT !.map = (name :> Len(r.leaves)) @@ m.map])

\* field_count of the type t, whose type_name is name
FieldCountOf(name, t, m) ==
    IF m.poisoned THEN Counted(FALSE, 0, m)
    ELSE IF name \in DOMAIN m.map THEN Counted(TRUE, m.map[name], m)
    ELSE FieldCountMiss(name, CountLeaves(t), m)

\* Persistable::field_count(): [ok, count, memo]
field_count(t, m) == FieldCountOf(TypeTable[t].name, t, m)

\* the state append threads: the Fields pushed, the option choices left, the memo
AppendState(out, opts, m) == [ok |-> TRUE, out |-> out, opts |-> opts, memo |-> m]

Push(st, f) == [st EXCEPT !.out = Append(st.out, f)]

RECURSIVE PushNulls(_, _)
PushNulls(st, k) == IF k <= 0 THEN st ELSE PushNulls(Push(st, Null), k - 1)

\* the value a primitive leaf takes: the seed, told apart by its position in the row
PrimNum(n, st) == n * 10 + Len(st.out)

\* DateTime::timestamp_nanos_opt().unwrap_or_default() as u64
TimestampNanos(n) == IF n >= -TwoTo63 /\ n < TwoTo63 THEN n % TwoTo64 ELSE 0

\* Option: whether the value is Some, and the state once the choice is taken
OptSome(st) == st.opts = <<>> \/ Head(st.opts)
OptTaken(st) == [st EXCEPT !.opts = IF @ = <<>> THEN <<>> ELSE Tail(@)]

\* None: for _ in 0..T::field_count() { row.push(Field::Null) }
AppendNone(fc, st) ==
    IF ~fc.ok THEN [st EXCEPT !.ok = FALSE, !.memo = fc.memo]
    ELSE PushNulls([st EXCEPT !.memo = fc.memo], fc.count)

RECURSIVE AppendValue(_, _, _)
RECURSIVE AppendOf(_, _, _)
RECURSIVE AppendFields(_, _, _, _, _)
RECURSIVE AppendArray(_, _, _, _)

\* an append body that skips #[persist(ignore)] fields of tuple structs too
AppendFieldsSkipping(fs, i, n, st, named) ==
    IF i > Len(fs) \/ ~st.ok THEN st
    ELSE IF fs[i].ignore
    THEN AppendFields(fs, i + 1, n, st, named)
    ELSE AppendFields(fs, i + 1, n, AppendValue(fs[i].ty, n, st), named)

\* the derive generator's append body for a struct with fields fs: those from i on
AppendFields(fs, i, n, st, named) ==
    IF i > Len(fs) \/ ~st.ok THEN st
    ELSE IF named /\ fs[i].ignore
    THEN AppendFields(fs, i + 1, n, st, named)
    ELSE AppendFields(fs, i + 1, n, AppendValue(fs[i].ty, n, st), named)

\* impl Persistable for [T; N]: k elements left
AppendArray(elem, k, n, st) ==
    IF k <= 0 \/ ~st.ok THEN st
    ELSE AppendArray(elem, k - 1, n, AppendValue(elem, n, st))

\* the append function of the type with table entry d
AppendOf(d, n, st) ==
    CASE d.kind = "prim" ->
            Push(st, Fd(d.tag, IF d.tag = "Bool" THEN n % 2 ELSE PrimNum(n, st), ""))
      [] d.kind = "str" -> Push(st, Fd("Str", 0, "s" \o ToString(n)))
      [] d.kind = "coll" -> Push(st, Fd("Str", 0, "[" \o ToString(n) \o "]"))
      [] d.kind = "datetime" -> Push(st, Fd("ULong", TimestampNanos(n), ""))
      [] d.kind = "duration" -> Push(st, Fd("ULong", n % TwoTo64, ""))
      [] d.kind = "decimal" -> Push(st, Fd("Double", n, ""))
      [] d.kind = "opt" ->
            IF OptSome(st) THEN AppendValue(d.a, n, OptTaken(st))
            ELSE AppendNone(field_count(d.a, st.memo), OptTaken(st))
      [] d.kind = "pair" -> AppendValue(d.b, n, AppendValue(d.a, n, st))
      [] d.kind = "arr" -> AppendArray(d.a, d.n, n, st)
      [] d.kind = "struct" -> AppendFields(d.fields, 1, n, st, TRUE)
      [] d.kind = "tstruct" -> AppendFields(d.fields, 1, n, st, FALSE)
      [] d.kind = "enum" ->
            Push(st, Fd("Str", 0, d.variants[(n % Len(d.variants)) + 1]))

\* value.append(row): the Fields pushed, in order
AppendValue(t, n, st) == IF ~st.ok THEN st ELSE AppendOf(TypeTable[t], n, st)

-----------------------------------------------------------------------------
(* RowBuffer (recorder_persist/src/row.rs) *)

EmptyBuffer == [rows |-> <<>>, current_col |-> 0]

\* RowBuffer::len(): the length of lane 0, 0 without lanes
BufLen(b) == IF b.rows = <<>> THEN 0 ELSE Len(b.rows[1])

\* RowBuffer::is_empty()
BufIsEmpty(b) == BufLen(b) = 0

\* the debug_assert_eq!(current_col, rows.len()) of begin() and record()
CursorAtEnd(b) == b.current_col = Len(b.rows)

\* RowBuffer::begin()
BufBegin(b) == [b EXCEPT !.current_col = 0]

\* RowBuffer::push(val)
BufPush(b, val) ==
    LET grown == IF Len(b.rows) <= b.current_col
                 THEN b.rows \o [i \in 1..(b.current_col + 1 - Len(b.rows)) |-> <<>>]
                 ELSE b.rows
    IN  [rows |-> [grown EXCEPT ![b.current_col + 1] = Append(@, val)],
         current_col |-> b.current_col + 1]

\* the pushes of one append call, in order
RECURSIVE BufPushAll(_, _)
BufPushAll(b, fs) ==
    IF fs = <<>> THEN b ELSE BufPushAll(BufPush(b, Head(fs)), Tail(fs))

\* column writers that take a Field of any tag
TagsOfAny(phys) == {"Bool", "Int", "UInt", "Long", "ULong", "Float", "Double", "Str"}

\* the Field tags a column writer of a physical type takes (Null aside)
TagsOf(phys) ==
    CASE phys = "BOOLEAN" -> {"Bool"}
      [] phys = "INT32" -> {"Int", "UInt"}
      [] phys = "INT64" -> {"Long", "ULong"}
      [] phys = "FLOAT" -> {"Float"}
      [] phys = "DOUBLE" -> {"Double"}
      [] phys = "BYTE_ARRAY" -> {"Str"}
      [] OTHER -> {}

\* a cast that saturates at i32::MAX
AsI32Saturating(x) == IF x >= TwoTo31 THEN TwoTo31 - 1 ELSE x

\* `*val as i32` of a u32, `*val as i64` of a u64: the same bits, read signed
AsI32(x) == LET y == x % TwoTo32 IN IF y >= TwoTo31 THEN y - TwoTo32 ELSE y
AsI64(x) == LET y == x % TwoTo64 IN IF y >= TwoTo63 THEN y - TwoTo64 ELSE y

\* the value a Field leaves in its scratch vector
Stored(f) ==
    CASE f.tag = "UInt" -> [num |-> AsI32(f.num), str |-> ""]
      [] f.tag = "ULong" -> [num |-> AsI64(f.num), str |-> ""]
      [] OTHER -> [num |-> f.num, str |-> f.str]

\* not_null: 1 for a Field that is not Null, 0 for Null
NotNull(col) == [i \in 1..Len(col) |-> IF col[i].tag = "Null" THEN 0 ELSE 1]

\* a scratch vector that keeps a slot for every Null
RECURSIVE GatherKeepingNulls(_)
GatherKeepingNulls(col) ==
    IF col = <<>> THEN <<>>
    ELSE <<Stored(Head(col))>> \o GatherKeepingNulls(Tail(col))

\* the scratch vector of a lane: its non-Null values in order
RECURSIVE Gather(_)
Gather(col) ==
    IF col = <<>> THEN <<>>
    ELSE IF Head(col).tag = "Null" THEN Gather(Tail(col))
    ELSE <<Stored(Head(col))>> \o Gather(Tail(col))

\* a column chunk as write_batch leaves it in the file
Chunk(leaf, col) ==
    [name |-> leaf.name, phys |-> leaf.phys, defs |-> NotNull(col), vals |-> Gather(col)]

\* the outcome of RowBuffer::record: res, the lanes afterwards, the chunks written
RecOut(res, rows, chunks) == [res |-> res, rows |-> rows, chunks |-> chunks]

\* the loop without col.clear(): the lanes keep what was written
RECURSIVE RecordLanesKeeping(_, _, _, _, _, _)
RecordLanesKeeping(rows, schema, k, chunks, faultCol, faultClose) ==
    IF k > Len(rows)
    THEN IF faultClose \/ Len(rows) # Len(schema)
         THEN RecOut("err", rows, chunks)
         ELSE RecOut("ok", rows, chunks)
    ELSE IF k > Len(schema)
    THEN RecOut("panic", rows, chunks)
    ELSE IF faultCol = k \/ (k > 1 /\ Len(rows[k]) # Len(chunks[1].defs))
    THEN RecOut("err", rows, chunks)
    ELSE RecordLanesKeeping(rows, schema, k + 1,
                            Append(chunks, Chunk(schema[k], rows[k])),
                            faultCol, faultClose)

\* the loop of RowBuffer::record from lane k on; faultCol is the lane whose
\* write_batch / close meets an I/O error (0: none), faultClose an error of
\* the row group's close
RECURSIVE RecordLanes(_, _, _, _, _, _)
RecordLanes(rows, schema, k, chunks, faultCol, faultClose) ==
    IF k > Len(rows)
    THEN \* row_group_writer.close()?: every column of the schema must be written
         IF faultClose \/ Len(rows) # Len(schema)
         THEN RecOut("err", rows, chunks)
         ELSE RecOut("ok", rows, chunks)
    ELSE IF k > Len(schema)
    THEN \* next_column()? is Ok(None): the unwrap() panics
         RecOut("panic", rows, chunks)
    ELSE LET col == rows[k]
             leaf == schema[k]
             badTag == \E i \in 1..Len(col) :
                           col[i].tag # "Null" /\ col[i].tag \notin TagsOf(leaf.phys)
             badNull == leaf.rep = "REQUIRED" /\ \E i \in 1..Len(col) : col[i].tag = "Null"
             badRows == k > 1 /\ Len(col) # Len(chunks[1].defs)
         IN  IF badTag \/ badNull \/ badRows \/ faultCol = k
             THEN RecOut("err", rows, chunks)
             ELSE RecordLanes([rows EXCEPT ![k] = <<>>], schema, k + 1,
                              Append(chunks, Chunk(leaf, col)), faultCol, faultClose)

\* a record that drops the lanes themselves (rows.clear()) once they are written
BufRecordDropping(b, schema, faultCol, faultClose) ==
    IF BufLen(b) = 0
    THEN RecOut("ok", b.rows, <<>>)
    ELSE LET r == RecordLanes(b.rows, schema, 1, <<>>, faultCol, faultClose)
         IN  IF r.res = "ok" THEN RecOut("ok", <<>>, r.chunks) ELSE r

\* what RowBuffer::record returns when it returns Ok: `size`, the len() it
\* read before the loop
RecordReturns(b) == BufLen(b)

\* RowBuffer::record(writer), from `let size = self.len()` on
BufRecord(b, schema, faultCol, faultClose) ==
    IF BufLen(b) = 0
    THEN RecOut("ok", b.rows, <<>>)
    ELSE RecordLanes(b.rows, schema, 1, <<>>, faultCol, faultClose)

\* the second debug assertion of RowBuffer::record: the sorted, deduplicated
\* lane lengths are one value (none, without lanes)
LanesDedupOne(b) == Cardinality({Len(b.rows[i]) : i \in 1..Len(b.rows)}) = 1

\* RowBuffer::record(writer) as a whole: in a debug build the two assertions
\* come first
RowBufferRecord(b, schema, faultCol, faultClose, debug) ==
    IF debug /\ ~(CursorAtEnd(b) /\ LanesDedupOne(b))
    THEN RecOut("panic", b.rows, <<>>)
    ELSE BufRecord(b, schema, faultCol, faultClose)

-----------------------------------------------------------------------------
(* Files and the table directory *)

\* format!("{:0>9}.parquet", index)
RECURSIVE PadLeft(_)
PadLeft(s) == IF Len(s) < 9 THEN PadLeft("0" \o s) ELSE s

FileName(index) == PadLeft(ToString(index)) \o ".parquet"

\* a Parquet file: the schema it was opened with, the column chunks of its row
\* group, whether close() completed; old marks a file this writer did not
\* make (one of an earlier session, or of another process)
File(schema, chunks, closed, old) ==
    [schema |-> schema, chunks |-> chunks, closed |-> closed, old |-> old]

EmptyDir == [name \in {} |-> File(<<>>, <<>>, TRUE, TRUE)]

\* a file left by an earlier session: one INT32 column with one row
OldFile(index) ==
    File(<<Leaf("id", "INT32", "REQUIRED", "none")>>,
         <<[name |-> "id", phys |-> "INT32", defs |-> <<1>>,
            vals |-> <<[num |-> 90 + index, str |-> ""]>>]>>,
         TRUE, TRUE)

OldDir(indices) == [name \in {FileName(i) : i \in indices} |->
                        OldFile(CHOOSE i \in indices : FileName(i) = name)]

\* the directory with one more (or one replaced) entry
WithFile(d, name, file) ==
    [n \in (DOMAIN d) \cup {name} |-> IF n = name THEN file ELSE d[n]]

\* the index a file name stands for (MaxIndex + 1 if it is none in the model's range)
IndexOf(name) ==
    IF \E i \in 0..MaxIndex : FileName(i) = name
    THEN CHOOSE i \in 0..MaxIndex : FileName(i) = name
    ELSE MaxIndex + 1

-----------------------------------------------------------------------------
(* TableWriter and RowBuilder (record_persist/src/writer.rs) *)

NoSchema == [some |-> FALSE, leaves |-> <<>>]
SomeSchema(leaves) == [some |-> TRUE, leaves |-> leaves]

NoWriter ==
    [flush_size |-> 0, current_file_path |-> "", file_index |-> 0, enabled |-> FALSE,
     fields |-> <<>>, schema |-> NoSchema, auto_flush |-> FALSE]

\* what an operation leaves behind: its result (ok / err / panic), the error's
\* kind, the writer, the buffer, the directory, the file it created ("" if none)
Out(res, err, wr, b, d, made) ==
    [res |-> res, err |-> err, w |-> wr, buf |-> b, dir |-> d, made |-> made]

\* an I/O failure to inject into a flush: where, and at which lane
Fault(at, col) == [at |-> at, col |-> col]
NoFault == Fault("none", 0)

\* the name scan of flush: the first index from i on whose file does not exist
\* a scan that steps past the index it found free
RECURSIVE ScanPast(_, _)
ScanPast(i, d) == IF FileName(i) \in DOMAIN d THEN ScanPast(i + 1, d) ELSE i + 1

\* a scan that takes the name of file_index, free or not
ScanNone(i, d) == i

RECURSIVE ScanFrom(_, _)
ScanFrom(i, d) == IF FileName(i) \in DOMAIN d THEN ScanFrom(i + 1, d) ELSE i

\* a create that opens (and truncates) whatever is at the path
CreateTruncating(d, name) == TRUE

\* File::create_new(path): fails when the path exists
CreateNewOk(d, name) == name \notin DOMAIN d

\* all lanes are equally long
LanesEqual(b) == \A i, j \in 1..Len(b.rows) : Len(b.rows[i]) = Len(b.rows[j])

\* flush(), once the row groups went through RowBuffer::record with result r:
\* writer.close()
FlushWritten(w1, b, d, fault, name, r) ==
    IF r.res = "panic"
    THEN Out("panic", "", w1, [b EXCEPT !.rows = r.rows],
             WithFile(d, name, File(w1.schema.leaves, r.chunks, FALSE, FALSE)), name)
    ELSE IF r.res = "err" \/ fault.at = "close"
    THEN Out("err", "Other", w1, [b EXCEPT !.rows = r.rows],
             WithFile(d, name, File(w1.schema.leaves, r.chunks, FALSE, FALSE)), name)
    ELSE Out("ok", "", w1, [b EXCEPT !.rows = r.rows],
             WithFile(d, name, File(w1.schema.leaves, r.chunks, TRUE, FALSE)), name)

\* flush(), once the name is chosen and file_index stepped past it:
\* File::create_new, SerializedFileWriter::new, buffer.record
FlushNamed(w1, b, d, fault, debug, name) ==
    IF fault.at = "create" \/ ~CreateNewOk(d, name)
    THEN Out("err", "IOError", w1, b, d, "")
    ELSE IF fault.at = "serializer"
    THEN Out("err", "Other", w1, b,
             WithFile(d, name, File(w1.schema.leaves, <<>>, FALSE, FALSE)), name)
    ELSE IF debug /\ ~(CursorAtEnd(b) /\ LanesDedupOne(b))
    THEN Out("panic", "", w1, b,
             WithFile(d, name, File(w1.schema.leaves, <<>>, FALSE, FALSE)), name)
    ELSE FlushWritten(w1, b, d, fault, name,
                      BufRecord(b, w1.schema.leaves,
                                IF fault.at = "column" THEN fault.col ELSE 0, FALSE))

\* flush(), once the scan found `index` free
FlushAt(wr, b, d, fault, debug, index) ==
    FlushNamed([wr EXCEPT !.file_index = index + 1], b, d, fault, debug, FileName(index))

\* a flush that freezes the schema itself when end() has not done so
FlushFreezing(wr, b, d, fault, debug) ==
    IF BufIsEmpty(b) \/ ~wr.enabled
    THEN Out("ok", "", wr, b, d, "")
    ELSE FlushAt(IF wr.schema.some THEN wr
                 ELSE [wr EXCEPT !.schema = SomeSchema(wr.fields)],
                 b, d, fault, debug, ScanFrom(wr.file_index, d))

\* TableWriter::flush()
Flush(wr, b, d, fault, debug) ==
    IF BufIsEmpty(b) \/ ~wr.enabled
    THEN Out("ok", "", wr, b, d, "")
    ELSE IF ~wr.schema.some
    THEN Out("err", "Other", wr, b, d, "")
    ELSE FlushAt(wr, b, d, fault, debug, ScanFrom(wr.file_index, d))

\* the message of the error flush() returns ("" when it returns Ok or
\* panics), without the detail format! appends to it
FlushErrorText(wr, b, d, fault) ==
    IF BufIsEmpty(b) \/ ~wr.enabled THEN ""
    ELSE IF ~wr.schema.some THEN "schema has not been created"
    ELSE IF fault.at = "create" \/ ~CreateNewOk(d, FileName(ScanFrom(wr.file_index, d)))
    THEN "io error"
    ELSE IF fault.at = "serializer" THEN "cannot create parquet serialiser"
    ELSE IF BufRecord(b, wr.schema.leaves,
                      IF fault.at = "column" THEN fault.col ELSE 0, FALSE).res = "err"
    THEN "failed to write to parquet"
    ELSE IF BufRecord(b, wr.schema.leaves, 0, FALSE).res = "ok" /\ fault.at = "close"
    THEN "failed to close parquet writer"
    ELSE ""

\* a flush_if_needed that rolls whatever the buffer holds
FlushIfNeededAlways(wr, b, d, fault, debug) ==
    IF BufLen(b) >= 1
    THEN Flush(wr, b, d, fault, debug)
    ELSE Out("ok", "", wr, b, d, "")

\* an error of the flush in drop() is logged, not returned (res is ok, err
\* keeps the kind of the error that was logged)
Logged(f) == IF f.res = "err" THEN [f EXCEPT !.res = "ok"] ELSE f

\* a flush_if_needed that logs the error of its flush and returns Ok
FlushIfNeededSwallowing(wr, b, d, fault, debug) ==
    IF BufLen(b) >= wr.flush_size
    THEN Logged(Flush(wr, b, d, fault, debug))
    ELSE Out("ok", "", wr, b, d, "")

\* TableWriter::flush_if_needed()
FlushIfNeeded(wr, b, d, fault, debug) ==
    IF BufLen(b) >= wr.flush_size
    THEN Flush(wr, b, d, fault, debug)
    ELSE Out("ok", "", wr, b, d, "")

\* begin(), after its flush with outcome f: buffer.begin()
BeginOpened(f, debug) ==
    IF f.res # "ok" THEN f
    ELSE IF debug /\ ~CursorAtEnd(f.buf) THEN [f EXCEPT !.res = "panic"]
    ELSE [f EXCEPT !.buf = BufBegin(f.buf)]

\* a begin that opens the row without looking at the threshold
BeginRowUnchecked(wr, b, d, fault, debug) ==
    IF ~wr.enabled THEN Out("ok", "", wr, b, d, "")
    ELSE BeginOpened(Out("ok", "", wr, b, d, ""), debug)

\* TableWriter::begin()
BeginRow(wr, b, d, fault, debug) ==
    IF ~wr.enabled THEN Out("ok", "", wr, b, d, "")
    ELSE BeginOpened(IF BufLen(b) >= wr.flush_size
                     THEN Flush(wr, b, d, fault, debug)
                     ELSE Out("ok", "", wr, b, d, ""),
                     debug)

\* the writer once end() has frozen the schema, if it was not
Frozen(wr) ==
    IF wr.schema.some THEN wr ELSE [wr EXCEPT !.schema = SomeSchema(wr.fields)]

\* RowBuilder::end()
EndRow(wr, b, d, fault, debug) ==
    IF ~wr.enabled THEN Out("ok", "", wr, b, d, "")
    ELSE IF wr.auto_flush
    THEN FlushIfNeeded(Frozen(wr), b, d, fault, debug)
    ELSE Out("ok", "", Frozen(wr), b, d, "")

\* a destructor that does not flush
DropWriterSilent(wr, b, d, fault, debug) == Out("ok", "", wr, b, d, "")

\* Drop for TableWriter
DropWriter(wr, b, d, fault, debug) ==
    IF BufIsEmpty(b) THEN Out("ok", "", wr, b, d, "")
    ELSE Logged(Flush(wr, b, d, fault, debug))

\* an outcome together with the field_count memo
OutMemo(o, m) ==
    [res |-> o.res, err |-> o.err, w |-> o.w, buf |-> o.buf, dir |-> o.dir,
     made |-> o.made, memo |-> m]

\* a record that tests the threshold itself, once its value is pushed
RecordedFlushing(wr, b, d, m, sch, st) ==
    IF ~sch.ok THEN OutMemo(Out("panic", "", wr, b, d, ""), m)
    ELSE IF ~st.ok
    THEN OutMemo(Out("panic", "", [wr EXCEPT !.fields = @ \o sch.leaves], b, d, ""),
                 st.memo)
    ELSE OutMemo(FlushIfNeeded(Frozen([wr EXCEPT !.fields = @ \o sch.leaves]),
                               BufPushAll(b, st.out), d, NoFault, FALSE),
                 st.memo)

\* record(), with sch what T::schema added to `fields` (nothing once the
\* schema is frozen) and st what value.append pushed
Recorded(wr, b, d, m, sch, st) ==
    IF ~sch.ok THEN OutMemo(Out("panic", "", wr, b, d, ""), m)
    ELSE IF ~st.ok
    THEN OutMemo(Out("panic", "", [wr EXCEPT !.fields = @ \o sch.leaves], b, d, ""),
                 st.memo)
    ELSE OutMemo(Out("ok", "", [wr EXCEPT !.fields = @ \o sch.leaves],
                     BufPushAll(b, st.out), d, ""),
                 st.memo)

\* a record that derives leaves only while the fields list is empty
RecordValueFirstOnly(wr, b, d, m, t, v) ==
    IF ~wr.enabled THEN OutMemo(Out("ok", "", wr, b, d, ""), m)
    ELSE Recorded(wr, b, d, m,
                  IF wr.schema.some \/ wr.fields # <<>> THEN SchemaOk(<<>>)
                  ELSE Schema(t, NoPrefix, "none", "none"),
                  AppendValue(t, v.n, AppendState(<<>>, v.opts, m)))

\* a record that does not look at `enabled`
RecordValueUnguarded(wr, b, d, m, t, v) ==
    Recorded(wr, b, d, m,
             IF wr.schema.some THEN SchemaOk(<<>>)
             ELSE Schema(t, NoPrefix, "none", "none"),
             AppendValue(t, v.n, AppendState(<<>>, v.opts, m)))

\* a record that derives the leaves of every value, frozen schema or not
RecordValueExtending(wr, b, d, m, t, v) ==
    IF ~wr.enabled THEN OutMemo(Out("ok", "", wr, b, d, ""), m)
    ELSE Recorded(wr, b, d, m, Schema(t, NoPrefix, "none", "none"),
                  AppendValue(t, v.n, AppendState(<<>>, v.opts, m)))

\* RowBuilder::record(value) of a value [n, opts] of type t
RecordValue(wr, b, d, m, t, v) ==
    IF ~wr.enabled THEN OutMemo(Out("ok", "", wr, b, d, ""), m)
    ELSE Recorded(wr, b, d, m,
                  IF wr.schema.some THEN SchemaOk(<<>>)
                  ELSE Schema(t, NoPrefix, "none", "none"),
                  AppendValue(t, v.n, AppendState(<<>>, v.opts, m)))

\* the table name the writer is constructed for
TableName == "t"

\* an `enabled` that asks the whitelist only
EnabledByWhitelist(c) == c.tables = {} \/ TableName \in c.tables

\* `enabled` of TableWriter::new
Enabled(c) == (c.tables = {} \/ TableName \in c.tables) /\ c.directory # ""

\* TableWriter::new(path_prefix, persist_config) when create_dir_all succeeds
NewWriter(c, flushSize) ==
    [flush_size |-> flushSize,
     current_file_path |-> c.directory \o "/" \o TableName,
     file_index |-> 0, enabled |-> Enabled(c), fields |-> <<>>, schema |-> NoSchema,
     auto_flush |-> TRUE]

\* a constructor that removes the table directory whatever `keep` says
WipesAlways(c) == c.directory # ""

\* whether TableWriter::new removes the table directory
Wipes(c) == c.directory # "" /\ ~c.keep

\* PersistConfig::new(directory, table)
PersistConfigNew(directory, table) ==
    [directory |-> directory, keep |-> FALSE, tables |-> {table}]

-----------------------------------------------------------------------------
(* The state machine of one writer session.  The debug assertions of         *)
(* RowBuffer exist in debug builds only: where one would fail, the step      *)
(* takes either outcome (dbg).                                               *)

NoProbe ==
    [op |-> "none", t |-> 0, ok |-> TRUE, count |-> 0, leaves |-> <<>>, tags |-> <<>>]

\* the flush under way: the directory as it was when the flush started, the
\* name its scan chose, the column chunks it has written, and the files other
\* processes have created so far
NoRun == [before |-> <<>>, name |-> "", cols |-> 0, others |-> 0]

\* the channel and the tasks of main before they are spawned: the records in
\* the queue, those whose send returned Ok, those recv returned, whether the
\* Sender / the Receiver is alive, where websocket::run (ws) and
\* persister::run (ps) are, the record a suspended send holds
NoChan ==
    [queue |-> <<>>, sent |-> <<>>, got |-> <<>>, tx |-> TRUE, rx |-> TRUE,
     ws |-> "connect", ps |-> "new", pending |-> ""]

\* history: the values handed to record(), the result of the last call and the
\* kind of its error, the files created by flushes that returned Ok, whether
\* every call so far returned Ok, the number of calls that left the row
\* protocol, whether a direct flush() call has created a file
InitHist ==
    [recorded |-> <<>>, lastRes |-> "ok", lastErr |-> "",
     created |-> <<>>, allOk |-> TRUE, misuse |-> 0, rolled |-> FALSE]

Configs == [directory : {"", "out"}, keep : BOOLEAN, tables : {{}, {"t"}, {"u"}}]

\* the table directory before the session: absent, empty, or holding the
\* files of earlier sessions (with a gap where a create failed)
OldIndexSets == {{}, {0, 2}}

Env(rows, nfaults, misuse, rowType, types, opts, flushSize, files, strict) ==
    [rows |-> rows, faults |-> nfaults, misuse |-> misuse, rowType |-> rowType,
     types |-> types, opts |-> opts, flushSize |-> flushSize, files |-> files,
     strict |-> strict]

\* the rows a run records: MaxRows into the table the whitelist names,
\* MaxOtherRows under the other configurations
RowsFor(c) ==
    IF c.directory # "" /\ c.tables = {TableName} THEN MaxRows ELSE MaxOtherRows

\* the option choices tried for a record type (Msg has no Option)
OptsFor(t, opts) == IF t = T_Tick THEN opts ELSE {<<>>}

InitCommon ==
    /\ w = NoWriter
    /\ buf = EmptyBuffer
    /\ pc = "none"
    /\ memo = EmptyMemo
    /\ probe = NoProbe
    /\ faults = 0
    /\ hist = InitHist
    /\ run = NoRun
    /\ chan = NoChan

\* a run meets I/O faults or leaves the row protocol, not both
Init ==
    /\ InitCommon
    /\ cfg \in Configs
    /\ \E ix \in OldIndexSets : dir = OldDir(ix)
    /\ dirExists \in (IF dir = EmptyDir THEN BOOLEAN ELSE {TRUE})
    /\ \E fs \in 1..MaxFlushSize, faulty \in BOOLEAN :
           env = Env(RowsFor(cfg),
                     IF faulty THEN MaxFaults ELSE 0,
                     IF faulty THEN 0 ELSE MaxMisuse,
                     T_Tick, {T_Tick, T_Msg}, {<<TRUE>>, <<FALSE>>}, fs, MaxFiles, TRUE)

\* the faults a flush may meet now
FaultsNow ==
    {NoFault} \cup
    (IF faults < env.faults
     THEN {Fault("create", 0), Fault("serializer", 0), Fault("close", 0)}
          \cup {Fault("column", k) : k \in 1..Len(buf.rows)}
     ELSE {})

\* a call that leaves the row protocol is made while the run may still do so
MayCall(protoOk) == protoOk \/ hist.misuse < env.misuse

\* the history after a call
Noted(o, protoOk) ==
    [hist EXCEPT !.lastRes = o.res, !.lastErr = o.err,
                 !.created = IF o.res = "ok" /\ o.err = "" /\ o.made # ""
                             THEN Append(@, o.made) ELSE @,
                 !.allOk = @ /\ o.res = "ok" /\ o.err = "",
                 !.misuse = IF protoOk THEN @ ELSE @ + 1]

\* a call that ran to outcome o under fault f (f counts only if it changed the outcome)
Effect(o, o0, f) ==
    /\ f = NoFault \/ o # o0
    /\ w' = o.w
    /\ buf' = o.buf
    /\ dir' = o.dir
    /\ faults' = IF f = NoFault THEN faults ELSE faults + 1
    /\ UNCHANGED <<cfg, dirExists, memo, probe, env, chan, run>>

\* TableWriter::new
New ==
    /\ pc = "none"
    /\ \E fail \in (IF faults < env.faults /\ cfg.directory # "" THEN BOOLEAN ELSE {FALSE}) :
        LET wiped == Wipes(cfg)
        IN  /\ dir' = IF wiped THEN EmptyDir ELSE dir
            /\ dirExists' = IF cfg.directory = "" THEN dirExists
                            ELSE IF fail THEN (dirExists /\ ~wiped) ELSE TRUE
            /\ w' = IF fail THEN NoWriter ELSE NewWriter(cfg, env.flushSize)
            /\ pc' = IF fail THEN "failed" ELSE "idle"
            /\ faults' = IF fail THEN faults + 1 ELSE faults
            /\ hist' = [hist EXCEPT !.lastRes = IF fail THEN "err" ELSE "ok",
                                    !.lastErr = IF fail THEN "IOError" ELSE "",
                                    !.allOk = @ /\ ~fail]
    /\ UNCHANGED <<cfg, buf, memo, probe, env, chan, run>>

\* writer.auto_flush = false (a public field), set before the first row
SetAutoFlush ==
    /\ pc = "idle"
    /\ w.auto_flush
    /\ hist.recorded = <<>>
    /\ w' = [w EXCEPT !.auto_flush = FALSE]
    /\ hist' = [hist EXCEPT !.lastRes = "ok", !.lastErr = ""]
    /\ UNCHANGED <<cfg, dir, dirExists, buf, pc, memo, probe, env, chan, run, faults>>

\* writer.begin()
Begin ==
    /\ pc = "idle"
    /\ w.file_index < env.files
    /\ \E f \in FaultsNow, dbg \in BOOLEAN :
        \E o \in {BeginRow(w, buf, dir, f, dbg)} :
            /\ Effect(o, BeginRow(w, buf, dir, NoFault, dbg), f)
            /\ pc' = CASE o.res = "ok" -> "begun"
                       [] o.res = "err" -> "idle"
                       [] OTHER -> "panicked"
            /\ hist' = Noted(o, TRUE)

\* builder.record(&value)
Record ==
    /\ pc \in {"begun", "recorded", "ended"}
    /\ Len(hist.recorded) < env.rows
    /\ \E t \in env.types : \E opts \in OptsFor(t, env.opts) :
        \E o \in {RecordValue(w, buf, dir, memo, t,
                                Value(Len(hist.recorded) + 1, opts))},
           protoOk \in {pc = "begun" /\ t = env.rowType} :
            /\ MayCall(protoOk)
            /\ w' = o.w
            /\ buf' = o.buf
            /\ dir' = o.dir
            /\ memo' = o.memo
            /\ pc' = IF o.res = "ok" THEN "recorded" ELSE "panicked"
            /\ hist' = [hist EXCEPT
                            !.recorded = Append(@, [t |-> t, n |-> Len(@) + 1,
                                                     opts |-> opts]),
                            !.lastRes = o.res, !.lastErr = "",
                            !.allOk = @ /\ o.res = "ok",
                            !.misuse = IF protoOk THEN @ ELSE @ + 1]
    /\ UNCHANGED <<cfg, dirExists, probe, env, chan, run, faults>>

\* builder.end()
End ==
    /\ pc \in {"begun", "recorded", "ended"}
    /\ MayCall(pc = "recorded")
    /\ w.file_index < env.files
    /\ \E f \in FaultsNow, dbg \in BOOLEAN :
        \E o \in {EndRow(w, buf, dir, f, dbg)} :
            /\ Effect(o, EndRow(w, buf, dir, NoFault, dbg), f)
            /\ pc' = IF o.res = "panic" THEN "panicked" ELSE "ended"
            /\ hist' = Noted(o, pc = "recorded")

\* the RowBuilder goes out of scope
DropBuilder ==
    /\ pc \in {"begun", "recorded", "ended"}
    /\ MayCall(pc = "ended")
    /\ pc' = "idle"
    /\ hist' = [hist EXCEPT !.misuse = IF pc = "ended" THEN @ ELSE @ + 1]
    /\ UNCHANGED <<cfg, dir, dirExists, w, buf, memo, probe, env, chan, run, faults>>

\* writer.flush()
FlushCall ==
    /\ pc = "idle"
    /\ w.file_index < env.files
    /\ \E f \in FaultsNow, dbg \in BOOLEAN :
        \E o \in {Flush(w, buf, dir, f, dbg)} :
            /\ Effect(o, Flush(w, buf, dir, NoFault, dbg), f)
            /\ pc' = IF o.res = "panic" THEN "panicked" ELSE "idle"
            /\ hist' = [Noted(o, TRUE) EXCEPT !.rolled = @ \/ o.made # ""]

\* writer.flush_if_needed()
FlushIfNeededCall ==
    /\ pc = "idle"
    /\ w.file_index < env.files
    /\ \E f \in FaultsNow, dbg \in BOOLEAN :
        \E o \in {FlushIfNeeded(w, buf, dir, f, dbg)} :
            /\ Effect(o, FlushIfNeeded(w, buf, dir, NoFault, dbg), f)
            /\ pc' = IF o.res = "panic" THEN "panicked" ELSE "idle"
            /\ hist' = Noted(o, TRUE)

\* the writer goes out of scope
Drop ==
    /\ pc = "idle"
    /\ w.file_index < env.files
    /\ \E f \in FaultsNow, dbg \in BOOLEAN :
        \E o \in {DropWriter(w, buf, dir, f, dbg)} :
            /\ Effect(o, DropWriter(w, buf, dir, NoFault, dbg), f)
            /\ pc' = IF o.res = "panic" THEN "panicked" ELSE "dropped"
            /\ hist' = Noted(o, TRUE)

Next ==
    \/ New
    \/ SetAutoFlush
    \/ Begin
    \/ Record
    \/ End
    \/ DropBuilder
    \/ FlushCall
    \/ FlushIfNeededCall
    \/ Drop

Spec == Init /\ [][Next]_vars

-----------------------------------------------------------------------------
(* The roll scenario: the table of a whitelist, an empty directory, a        *)
(* working filesystem, one record type, flush sizes up to RollFlushSize.     *)

InitRoll ==
    /\ InitCommon
    /\ cfg = PersistConfigNew("out", TableName)
    /\ dir = EmptyDir
    /\ dirExists \in BOOLEAN
    /\ \E fs \in 1..RollFlushSize :
           env = Env(RollRows, 0, 0, T_Tick, {T_Tick}, {<<TRUE>>}, fs, RollRows + 1, TRUE)

SpecRoll == InitRoll /\ [][Next]_vars

-----------------------------------------------------------------------------
(* A writer of Tick rows that is also handed a pair (f64, f64): as many      *)
(* lanes as a Tick, other tags.  The filesystem works.                       *)

InitMix ==
    /\ InitCommon
    /\ cfg \in {c \in Configs : c.directory = "out" /\ c.tables = {}}
    /\ dir = EmptyDir
    /\ dirExists \in BOOLEAN
    /\ \E fs \in 1..MaxFlushSize :
           env = Env(MaxRows, 0, MaxMisuse, T_Tick, {T_Tick, T_PairF64},
                     {<<TRUE>>, <<FALSE>>}, fs, MaxFiles, TRUE)

SpecMix == InitMix /\ [][Next]_vars

-----------------------------------------------------------------------------
(* Writers of one derived record type each, used by the row protocol, on a   *)
(* filesystem that works.                                                    *)

DerivedTypes == {T_Tick, T_Book, T_Quote, T_Fill}

InitDerived ==
    /\ InitCommon
    /\ cfg = PersistConfigNew("out", TableName)
    /\ dir = EmptyDir
    /\ dirExists = FALSE
    /\ \E t \in DerivedTypes, fs \in 1..MaxFlushSize, strict \in BOOLEAN :
           env = Env(MaxRows, 0, 0, t, {t}, {<<TRUE>>, <<FALSE>>}, fs, MaxFiles, strict)

SpecDerived == InitDerived /\ [][Next]_vars

-----------------------------------------------------------------------------
(* flush() taken one system call at a time, next to a crash of the process   *)
(* and to another process that creates files in the same table directory.   *)
(* Every writer is built with flush_size = BUFFERED_ROWS, so begin() and     *)
(* end() do not flush here; the lanes of the buffer are the process's own    *)
(* memory, what the steps share with the outside is the directory.           *)

InitRace ==
    /\ InitCommon
    /\ cfg \in {c \in Configs : c.directory = "out" /\ c.tables = {}}
    /\ \E ix \in OldIndexSets : dir = OldDir(ix)
    /\ dirExists = TRUE
    /\ env = Env(MaxRows, 0, 0, T_Tick, {T_Tick}, {<<TRUE>>, <<FALSE>>},
                 BUFFERED_ROWS, MaxFiles, TRUE)

\* the flush is between its first and its last system call
InFlush == pc \in {"scan", "named", "writing"}

\* flush(), up to the name scan: the early returns and the schema test
FlushStart ==
    /\ pc = "idle"
    /\ w.file_index < env.files
    /\ IF BufIsEmpty(buf) \/ ~w.enabled
       THEN /\ pc' = "idle"
            /\ hist' = [hist EXCEPT !.lastRes = "ok", !.lastErr = ""]
            /\ run' = run
       ELSE IF ~w.schema.some
       THEN /\ pc' = "idle"
            /\ hist' = [hist EXCEPT !.lastRes = "err", !.lastErr = "Other",
                                    !.allOk = FALSE]
            /\ run' = run
       ELSE /\ pc' = "scan"
            /\ hist' = hist
            /\ run' = [run EXCEPT !.before = dir, !.name = "", !.cols = 0]
    /\ UNCHANGED <<cfg, dir, dirExists, w, buf, memo, probe, env, chan, faults>>

\* one turn of the scan loop: the name of file_index, file_index += 1, exists()
FlushScan ==
    /\ pc = "scan"
    /\ w.file_index <= MaxIndex
    /\ run' = [run EXCEPT !.name = FileName(w.file_index)]
    /\ w' = [w EXCEPT !.file_index = @ + 1]
    /\ pc' = IF FileName(w.file_index) \in DOMAIN dir THEN "scan" ELSE "named"
    /\ UNCHANGED <<cfg, dir, dirExists, buf, memo, probe, env, chan, faults, hist>>

\* File::create_new(buf)? and SerializedFileWriter::new
FlushCreate ==
    /\ pc = "named"
    /\ IF CreateNewOk(dir, run.name)
       THEN /\ dir' = WithFile(dir, run.name, File(w.schema.leaves, <<>>, FALSE, FALSE))
            /\ pc' = "writing"
            /\ hist' = hist
       ELSE /\ dir' = dir
            /\ pc' = "idle"
            /\ hist' = Noted(Out("err", "IOError", w, buf, dir, ""), TRUE)
    /\ UNCHANGED <<cfg, dirExists, w, buf, memo, probe, env, chan, run, faults>>

\* one turn of the lane loop of RowBuffer::record: the next column chunk
\* reaches the file
FlushColumn ==
    /\ pc = "writing"
    /\ \E r \in {BufRecord(buf, w.schema.leaves, 0, FALSE)} :
        /\ run.cols < Len(r.chunks)
        /\ dir' = WithFile(dir, run.name,
                           File(w.schema.leaves, SubSeq(r.chunks, 1, run.cols + 1),
                                FALSE, FALSE))
    /\ run' = [run EXCEPT !.cols = @ + 1]
    /\ UNCHANGED <<cfg, dirExists, w, buf, pc, memo, probe, env, chan, faults, hist>>

\* the end of RowBuffer::record and writer.close(): flush() returns
FlushClose ==
    /\ pc = "writing"
    /\ \E r \in {BufRecord(buf, w.schema.leaves, 0, FALSE)} :
        /\ run.cols = Len(r.chunks)
        /\ \E o \in {FlushWritten(w, buf, dir, NoFault, run.name, r)} :
            /\ w' = o.w
            /\ buf' = o.buf
            /\ dir' = o.dir
            /\ pc' = IF o.res = "panic" THEN "panicked" ELSE "idle"
            /\ hist' = [Noted(o, TRUE) EXCEPT !.rolled = TRUE]
    /\ UNCHANGED <<cfg, dirExists, memo, probe, env, chan, run, faults>>

\* the process dies inside a flush: nothing of it runs any more, Drop included
Crash ==
    /\ InFlush
    /\ pc' = "crashed"
    /\ UNCHANGED <<cfg, dir, dirExists, w, buf, memo, probe, env, chan, run, faults, hist>>

\* another process creates a file in the table directory
OtherCreate ==
    /\ pc \notin {"none", "crashed"}
    /\ run.others < MaxOthers
    /\ \E i \in 0..MaxOtherIndex :
        /\ FileName(i) \notin DOMAIN dir
        /\ dir' = WithFile(dir, FileName(i), OldFile(i))
    /\ run' = [run EXCEPT !.others = @ + 1]
    /\ UNCHANGED <<cfg, dirExists, w, buf, pc, memo, probe, env, chan, faults, hist>>

NextRace ==
    \/ New
    \/ Begin
    \/ Record
    \/ End
    \/ DropBuilder
    \/ FlushStart
    \/ FlushScan
    \/ FlushCreate
    \/ FlushColumn
    \/ FlushClose
    \/ Crash
    \/ OtherCreate

SpecRace == InitRace /\ [][NextRace]_vars

\* the scan is a loop of the one thread that runs flush(): while the process
\* lives, a turn that can be taken is taken
SpecRaceLive == SpecRace /\ WF_vars(FlushScan)

-----------------------------------------------------------------------------
(* Direct calls of the Persistable protocol on one type of the table, any of  *)
(* them: T::schema, value.append and T::field_count, sharing the FIELD_COUNT *)
(* memo.                                                                     *)

\* the option choices of the probed values
ProbeOpts == {<<>>, <<FALSE>>, <<TRUE, FALSE>>}

InitTypes ==
    /\ InitCommon
    /\ cfg = PersistConfigNew("", TableName)
    /\ dir = EmptyDir
    /\ dirExists = FALSE
    /\ \E t \in Types, strict \in BOOLEAN :
           env = Env(0, 0, 0, t, {t}, ProbeOpts, 1, 0, strict)

\* T::schema(&mut fields, prefix, None, None) on an empty sink
ProbeSchema ==
    /\ \E t \in env.types, prefix \in {NoPrefix, SomePrefix("p")} :
        \E r \in {Schema(t, prefix, "none", "none")} :
            probe' = [op |-> "schema", t |-> t, ok |-> r.ok, count |-> Len(r.leaves),
                      leaves |-> r.leaves, tags |-> <<>>]
    /\ UNCHANGED <<cfg, dir, dirExists, w, buf, pc, memo, env, chan, run, faults, hist>>

\* value.append(&mut row) on an empty row
ProbeAppend ==
    /\ \E t \in env.types, n \in 1..MaxSeed, opts \in env.opts :
        \E st \in {AppendValue(t, n, AppendState(<<>>, opts, memo))} :
            /\ probe' = [op |-> "append", t |-> t, ok |-> st.ok, count |-> Len(st.out),
                         leaves |-> <<>>,
                         tags |-> [i \in 1..Len(st.out) |-> st.out[i].tag]]
            /\ memo' = st.memo
    /\ UNCHANGED <<cfg, dir, dirExists, w, buf, pc, env, chan, run, faults, hist>>

\* T::field_count()
ProbeFieldCount ==
    /\ \E t \in env.types :
        \E r \in {field_count(t, memo)} :
            /\ probe' = [op |-> "field_count", t |-> t, ok |-> r.ok, count |-> r.count,
                         leaves |-> <<>>, tags |-> <<>>]
            /\ memo' = r.memo
    /\ UNCHANGED <<cfg, dir, dirExists, w, buf, pc, env, chan, run, faults, hist>>

NextTypes ==
    \/ ProbeSchema
    \/ ProbeAppend
    \/ ProbeFieldCount

SpecTypes == InitTypes /\ [][NextTypes]_vars

-----------------------------------------------------------------------------
(* Direct calls on Option<T>, for any type T of the table: its schema under  *)
(* every prefix, repetition and logical type a caller may pass, its append   *)
(* of None and of Some(v).                                                   *)

\* impl<T: Persistable> Persistable for Option<T>
OptionOf(t) ==
    Ty("core::option::Option<" \o TypeTable[t].name \o ">", "opt", "", "", t, 0, 0,
       <<>>, <<>>)

\* the repetition_override and logical_type arguments tried
ProbeReps == {"none", "REQUIRED", "REPEATED"}
ProbeLogicals == {"none", "TS_NANOS"}

\* Option::<T>::schema(&mut fields, prefix, repetition_override, logical_type)
OptionSchema ==
    /\ \E t \in env.types, prefix \in {NoPrefix, SomePrefix("p")},
          r \in ProbeReps, lg \in ProbeLogicals :
        \E s \in {SchemaOf(OptionOf(t), prefix, r, lg)} :
            probe' = [op |-> "option_schema", t |-> t, ok |-> s.ok,
                      count |-> Len(s.leaves), leaves |-> s.leaves, tags |-> <<>>,
                      prefix |-> prefix, rep |-> r, logical |-> lg]
    /\ UNCHANGED <<cfg, dir, dirExists, w, buf, pc, memo, env, chan, run, faults, hist>>

\* option.append(&mut row) on an empty row: None when opts starts with FALSE
OptionAppend ==
    /\ \E t \in env.types, n \in 1..MaxSeed, opts \in env.opts :
        \E st \in {AppendOf(OptionOf(t), n, AppendState(<<>>, opts, memo))} :
            /\ probe' = [op |-> "option_append", t |-> t, ok |-> st.ok,
                         count |-> Len(st.out), leaves |-> <<>>,
                         tags |-> [i \in 1..Len(st.out) |-> st.out[i].tag],
                         n |-> n, opts |-> opts, before |-> memo, out |-> st.out]
            /\ memo' = st.memo
    /\ UNCHANGED <<cfg, dir, dirExists, w, buf, pc, env, chan, run, faults, hist>>

NextOption ==
    \/ OptionSchema
    \/ OptionAppend
    \/ ProbeFieldCount

SpecOption == InitTypes /\ [][NextOption]_vars

-----------------------------------------------------------------------------
(* One integer Field of any tag and value pushed into a fresh buffer, and    *)
(* the lane written to an INT32 or an INT64 column.                          *)

IntegerFields ==
    {Fd("Int", x, "") : x \in (-TwoTo31)..(TwoTo31 - 1)}
        \cup {Fd("UInt", x, "") : x \in 0..(TwoTo32 - 1)}
        \cup {Fd("Long", x, "") : x \in (-TwoTo63)..(TwoTo63 - 1)}
        \cup {Fd("ULong", x, "") : x \in 0..(TwoTo64 - 1)}

InitCast ==
    /\ InitCommon
    /\ cfg = PersistConfigNew("out", TableName)
    /\ dir = EmptyDir
    /\ dirExists = FALSE
    /\ env = Env(1, 0, 0, T_u32, {T_u32}, {<<>>}, 1, 1, TRUE)

\* row.begin(); row.push(field)
PushField ==
    /\ buf = EmptyBuffer
    /\ \E f \in IntegerFields : buf' = BufPush(BufBegin(buf), f)
    /\ UNCHANGED <<cfg, dir, dirExists, w, pc, memo, probe, env, chan, run, faults, hist>>

\* row.record(writer), the writer's schema being one REQUIRED integer leaf
RecordLane ==
    /\ buf # EmptyBuffer
    /\ probe = NoProbe
    /\ \E phys \in {"INT32", "INT64"} :
        \E o \in {RowBufferRecord(buf, <<Leaf("v", phys, "REQUIRED", "none")>>,
                                   0, FALSE, FALSE)} :
            /\ probe' = [op |-> "record", f |-> buf.rows[1][1], phys |-> phys,
                         res |-> o.res, chunks |-> o.chunks]
            /\ buf' = [buf EXCEPT !.rows = o.rows]
    /\ UNCHANGED <<cfg, dir, dirExists, w, pc, memo, env, chan, run, faults, hist>>

NextCast ==
    \/ PushField
    \/ RecordLane

SpecCast == InitCast /\ [][NextCast]_vars

-----------------------------------------------------------------------------
(* A DateTime<Utc> or a Duration of any nanosecond count appended to an      *)
(* empty row.  A DateTime reaches far beyond the counts an i64 holds on both *)
(* sides of the epoch, a Duration (u64 seconds) beyond those a u64 holds.    *)
(* One call a run.                                                           *)

DateTimeNanos == (-(2 * TwoTo64))..(2 * TwoTo64)
DurationNanos == 0..(2 * TwoTo64)

\* datetime.append(&mut row)
AppendDateTime ==
    /\ probe = NoProbe
    /\ \E n \in DateTimeNanos :
        \E st \in {AppendValue(T_DateTime, n, AppendState(<<>>, <<>>, memo))} :
            probe' = [op |-> "append_time", t |-> T_DateTime, ok |-> st.ok,
                      n |-> n, out |-> st.out]
    /\ UNCHANGED <<cfg, dir, dirExists, w, buf, pc, memo, env, chan, run, faults, hist>>

\* duration.append(&mut row)
AppendDuration ==
    /\ probe = NoProbe
    /\ \E n \in DurationNanos :
        \E st \in {AppendValue(T_Duration, n, AppendState(<<>>, <<>>, memo))} :
            probe' = [op |-> "append_time", t |-> T_Duration, ok |-> st.ok,
                      n |-> n, out |-> st.out]
    /\ UNCHANGED <<cfg, dir, dirExists, w, buf, pc, memo, env, chan, run, faults, hist>>

NextTime ==
    \/ AppendDateTime
    \/ AppendDuration

SpecTime == InitCast /\ [][NextTime]_vars

-----------------------------------------------------------------------------
(* main: the websocket task sends Records into the bounded channel, the      *)
(* persister task receives them and owns the TableWriter.  What runs between *)
(* two awaits of a task is one step.  The filesystem works.                  *)

\* enum Record
RecordKinds == {"Data", "Skip", "Error"}

\* Sender::send finds room when the queue holds fewer records than its capacity
SendReadyAlways(q) == TRUE

SendReady(q) == Len(q) < Capacity

InitChannel ==
    /\ InitCommon
    /\ cfg = PersistConfigNew("out", TableName)
    /\ \E ix \in OldIndexSets : dir = OldDir(ix)
    /\ dirExists \in (IF dir = EmptyDir THEN BOOLEAN ELSE {TRUE})
    /\ \E strict \in BOOLEAN :
           env = Env(MaxSent, 0, 0, T_RfqMatch, {T_RfqMatch}, {<<>>}, BUFFERED_ROWS,
                     MaxFiles, strict)

\* websocket::run returns: the Sender is dropped
WsReturned(res) == [chan EXCEPT !.ws = res, !.tx = FALSE, !.pending = ""]

\* connect(ws_url).await?
WsConnect ==
    /\ chan.ws = "connect"
    /\ \E ok \in BOOLEAN :
           chan' = IF ok THEN [chan EXCEPT !.ws = "subscribe"] ELSE WsReturned("err")
    /\ UNCHANGED <<cfg, dir, dirExists, w, buf, pc, memo, probe, env, faults, hist, run>>

\* stream.send(subscribe_fn()).await?
WsSubscribe ==
    /\ chan.ws = "subscribe"
    /\ \E ok \in BOOLEAN :
           chan' = IF ok THEN [chan EXCEPT !.ws = "next"] ELSE WsReturned("err")
    /\ UNCHANGED <<cfg, dir, dirExists, w, buf, pc, memo, probe, env, faults, hist, run>>

\* stream.next().await gives a message: let record = handle_fn(message)
WsMessage ==
    /\ chan.ws = "next"
    /\ Len(chan.sent) < env.rows
    /\ \E k \in RecordKinds : chan' = [chan EXCEPT !.ws = "send", !.pending = k]
    /\ UNCHANGED <<cfg, dir, dirExists, w, buf, pc, memo, probe, env, faults, hist, run>>

\* stream.next().await gives None (Ok(())) or an error (Err)
WsStreamEnds ==
    /\ chan.ws = "next"
    /\ \E res \in {"ok", "err"} : chan' = WsReturned(res)
    /\ UNCHANGED <<cfg, dir, dirExists, w, buf, pc, memo, probe, env, faults, hist, run>>

\* tx.send(record).await?: Err once the Receiver is gone, suspended while
\* the queue is full
WsSend ==
    /\ chan.ws = "send"
    /\ IF ~chan.rx THEN chan' = WsReturned("err")
       ELSE /\ SendReady(chan.queue)
            /\ chan' = [chan EXCEPT !.queue = Append(@, chan.pending),
                                    !.sent = Append(@, chan.pending),
                                    !.ws = "next", !.pending = ""]
    /\ UNCHANGED <<cfg, dir, dirExists, w, buf, pc, memo, probe, env, faults, hist, run>>

\* a return of persister::run that leaves the Receiver alive
PsReturnedKeeping(c, res) == [c EXCEPT !.ps = res]

\* persister::run is left with result res: the Receiver is dropped
PsReturned(c, res) == [c EXCEPT !.ps = res, !.rx = FALSE]

\* let mut writer = TableWriter::new(&venue.to_string(), &config)?
PersisterNew ==
    /\ chan.ps = "new"
    /\ dir' = IF Wipes(cfg) THEN EmptyDir ELSE dir
    /\ dirExists' = TRUE
    /\ w' = NewWriter(cfg, env.flushSize)
    /\ chan' = [chan EXCEPT !.ps = "recv"]
    /\ hist' = [hist EXCEPT !.lastRes = "ok", !.lastErr = ""]
    /\ UNCHANGED <<cfg, buf, pc, memo, probe, env, faults, run>>

\* the value of a call, computed once
TheOne(S) == CHOOSE x \in S : TRUE

\* writer.flush_if_needed()? after end()
AfterEnd(o, m, debug) ==
    IF o.res # "ok" THEN OutMemo(o, m)
    ELSE TheOne({OutMemo(f, m) :
                    f \in {FlushIfNeeded(o.w, o.buf, o.dir, NoFault, debug)}})

\* .end()? after record()
AfterRecord(o, debug) ==
    IF o.res # "ok" THEN o
    ELSE TheOne({AfterEnd(e, o.memo, debug) :
                    e \in {EndRow(o.w, o.buf, o.dir, NoFault, debug)}})

\* RowBuilder::record(&rfq_match), the schema call and the append call
\* each computed once
RecordRfqMatch(wr, b, d, m, v) ==
    IF ~wr.enabled THEN OutMemo(Out("ok", "", wr, b, d, ""), m)
    ELSE TheOne({Recorded(wr, b, d, m, sch, st) :
                    sch \in {IF wr.schema.some THEN SchemaOk(<<>>)
                             ELSE Schema(T_RfqMatch, NoPrefix, "none", "none")},
                    st \in {AppendValue(T_RfqMatch, v.n,
                                        AppendState(<<>>, v.opts, m))}})

\* .record(&rfq_match)? after begin()
AfterBegin(o, m, v, debug) ==
    IF o.res # "ok" THEN OutMemo(o, m)
    ELSE TheOne({AfterRecord(r, debug) :
                    r \in {RecordRfqMatch(o.w, o.buf, o.dir, m, v)}})

\* writer.begin()?.record(&rfq_match)?.end()?; writer.flush_if_needed()?
PersistData(wr, b, d, m, v, debug) ==
    TheOne({AfterBegin(o, m, v, debug) : o \in {BeginRow(wr, b, d, NoFault, debug)}})

\* the writer goes out of scope as run returns or unwinds
WriterDropped(o, debug) ==
    DropWriter(o.w, o.buf, o.dir, NoFault, debug)

\* the outcome the task is left with: that of the call, after the drop
Left(o, dropped) ==
    IF o.res = "ok" /\ dropped.res = "panic" THEN "panic" ELSE o.res

\* the task's position for an outcome
PsAt(res) == CASE res = "ok" -> "ok" [] res = "err" -> "err" [] OTHER -> "panicked"

\* rx.recv().await gives Record::Data: the row is recorded; an Err or a panic
\* leaves run, dropping the writer
PersisterData ==
    /\ chan.ps = "recv"
    /\ chan.queue # <<>> /\ Head(chan.queue) = "Data"
    /\ \E dbg \in BOOLEAN :
        \E o \in {PersistData(w, buf, dir, memo,
                               Value(Len(hist.recorded) + 1, <<>>), dbg)} :
            \E fin \in {IF o.res = "ok" THEN Out("ok", "", o.w, o.buf, o.dir, "")
                         ELSE WriterDropped(o, dbg)} :
                /\ w' = fin.w
                /\ buf' = fin.buf
                /\ dir' = fin.dir
                /\ memo' = o.memo
                /\ chan' = IF o.res = "ok"
                           THEN [chan EXCEPT !.queue = Tail(@), !.got = Append(@, "Data")]
                           ELSE PsReturned([chan EXCEPT !.queue = Tail(@),
                                                       !.got = Append(@, "Data")],
                                           PsAt(o.res))
                /\ hist' = [hist EXCEPT
                                !.recorded = IF o.res = "ok"
                                             THEN Append(@, [t |-> T_RfqMatch,
                                                             n |-> Len(@) + 1,
                                                             opts |-> <<>>])
                                             ELSE @,
                                !.lastRes = o.res, !.lastErr = o.err,
                                !.allOk = @ /\ o.res = "ok"]
    /\ UNCHANGED <<cfg, dirExists, pc, probe, env, faults, run>>

\* rx.recv().await gives Record::Skip: logged
PersisterSkip ==
    /\ chan.ps = "recv"
    /\ chan.queue # <<>> /\ Head(chan.queue) = "Skip"
    /\ chan' = [chan EXCEPT !.queue = Tail(@), !.got = Append(@, "Skip")]
    /\ UNCHANGED <<cfg, dir, dirExists, w, buf, pc, memo, probe, env, faults, hist, run>>

\* rx.recv().await gives Record::Error: logged, break
PersisterError ==
    /\ chan.ps = "recv"
    /\ chan.queue # <<>> /\ Head(chan.queue) = "Error"
    /\ chan' = [chan EXCEPT !.queue = Tail(@), !.got = Append(@, "Error"),
                            !.ps = "flush"]
    /\ UNCHANGED <<cfg, dir, dirExists, w, buf, pc, memo, probe, env, faults, hist, run>>

\* rx.recv().await gives None: the queue is empty and the Sender dropped
PersisterClosed ==
    /\ chan.ps = "recv"
    /\ chan.queue = <<>> /\ ~chan.tx
    /\ chan' = [chan EXCEPT !.ps = "flush"]
    /\ UNCHANGED <<cfg, dir, dirExists, w, buf, pc, memo, probe, env, faults, hist, run>>

\* writer.flush()?; Ok(()): run returns and the writer is dropped
PersisterFlush ==
    /\ chan.ps = "flush"
    /\ \E dbg \in BOOLEAN :
        \E o \in {Flush(w, buf, dir, NoFault, dbg)} :
            \E fin \in {WriterDropped(o, dbg)} :
                /\ w' = fin.w
                /\ buf' = fin.buf
                /\ dir' = fin.dir
                /\ chan' = PsReturned(chan, PsAt(Left(o, fin)))
                /\ hist' = [hist EXCEPT
                                !.lastRes = o.res, !.lastErr = o.err,
                                !.created = IF o.res = "ok" /\ o.made # ""
                                            THEN Append(@, o.made) ELSE @,
                                !.allOk = @ /\ o.res = "ok"]
    /\ UNCHANGED <<cfg, dirExists, pc, memo, probe, env, faults, run>>

WebsocketStep ==
    \/ WsConnect
    \/ WsSubscribe
    \/ WsMessage
    \/ WsStreamEnds
    \/ WsSend

PersisterStep ==
    \/ PersisterNew
    \/ PersisterData
    \/ PersisterSkip
    \/ PersisterError
    \/ PersisterClosed
    \/ PersisterFlush

NextChannel ==
    \/ WebsocketStep
    \/ PersisterStep

SpecChannel == InitChannel /\ [][NextChannel]_vars

\* the channel record once the persister took the head of the queue
Received(c) == [c EXCEPT !.queue = Tail(@), !.got = Append(@, Head(c.queue))]

\* where a step of the persister may leave the channel record
PersisterNexts(c) ==
    CASE c.ps = "new" -> {[c EXCEPT !.ps = "recv"]}
      [] c.ps = "flush" -> {PsReturned(c, r) : r \in {"ok", "err", "panicked"}}
      [] c.ps = "recv" /\ c.queue = <<>> ->
            IF c.tx THEN {} ELSE {[c EXCEPT !.ps = "flush"]}
      [] c.ps = "recv" /\ c.queue # <<>> ->
            CASE Head(c.queue) = "Skip" -> {Received(c)}
              [] Head(c.queue) = "Error" -> {[Received(c) EXCEPT !.ps = "flush"]}
              [] OTHER -> {Received(c), PsReturned(Received(c), "err"),
                           PsReturned(Received(c), "panicked")}
      [] OTHER -> {}

\* a step of the persister task, as the channel record shows it: every
\* PersisterStep is one, no WebsocketStep is, and it can be taken exactly
\* where the persister can go on
PersisterMoves == chan' \in PersisterNexts(chan)

\* the runtime polls a task that can go on: a persister that has a record to
\* receive, a closed channel to see or a flush to make does so in the end.
\* The websocket task waits on the network and owes no step.
SpecChannelLive == SpecChannel /\ WF_chan(PersisterMoves)

-----------------------------------------------------------------------------
(* Reading the table directory back, and the runs the properties speak of *)

\* a cell as a reader of the file sees it
NullCell == [null |-> TRUE, num |-> 0, str |-> ""]
ValueCell(x) == [null |-> FALSE, num |-> x.num, str |-> x.str]

\* the rows of a file's row group
RowsIn(file) == IF file.chunks = <<>> THEN 0 ELSE Len(file.chunks[1].defs)

\* row i of a column chunk: null at definition level 0, else the next value
CellAt(chunk, i) ==
    IF chunk.defs[i] = 0 THEN NullCell
    ELSE ValueCell(chunk.vals[SumSeq(SubSeq(chunk.defs, 1, i))])

ReadRows(file) ==
    [i \in 1..RowsIn(file) |->
        [c \in 1..Len(file.chunks) |-> CellAt(file.chunks[c], i)]]

\* the rows of the closed files of d from index i on, in index order; with
\* mine, those of the files this writer made only
RECURSIVE ReadFrom(_, _, _)
ReadFrom(d, i, mine) ==
    IF i > MaxIndex THEN <<>>
    ELSE LET name == FileName(i)
             here == IF name \in DOMAIN d /\ d[name].closed /\ (~mine \/ ~d[name].old)
                     THEN ReadRows(d[name]) ELSE <<>>
         IN  here \o ReadFrom(d, i + 1, mine)

\* the cells a recorded value is to be read back as
ExpectedRow(r) ==
    LET st == AppendValue(r.t, r.n, AppendState(<<>>, r.opts, EmptyMemo))
    IN  [c \in 1..Len(st.out) |->
            IF st.out[c].tag = "Null" THEN NullCell ELSE ValueCell(Stored(st.out[c]))]

ExpectedRows(rs) == [i \in 1..Len(rs) |-> ExpectedRow(rs[i])]

\* the rows the buffer holds (its lanes being equally long)
BufferedRows(b) ==
    [i \in 1..BufLen(b) |->
        [c \in 1..Len(b.rows) |->
            IF b.rows[c][i].tag = "Null" THEN NullCell ELSE ValueCell(Stored(b.rows[c][i]))]]

\* every call kept to the row protocol / and returned Ok
Proto == hist.misuse = 0
Clean == Proto /\ hist.allOk

\* no file of an earlier session is in the table directory
StartedEmpty == \A name \in DOMAIN dir : ~dir[name].old

\* between rows
BetweenRows == pc \in {"idle", "ended", "dropped"}

\* the closed files this writer made
MyFiles(d) == {name \in DOMAIN d : ~d[name].old /\ d[name].closed}

\* n rows rolled at flush size F: files 0 .. ceil(n/F)-1, F rows in each but
\* the last, which holds the n mod F that remain
RollLayout(d, n, F) ==
    LET full == n \div F
        rest == n % F
        count == full + (IF rest = 0 THEN 0 ELSE 1)
    IN  /\ DOMAIN d = {FileName(i) : i \in 0..(count - 1)}
        /\ \A i \in 0..(count - 1) :
               /\ d[FileName(i)].closed
               /\ RowsIn(d[FileName(i)]) = IF i < full THEN F ELSE rest

-----------------------------------------------------------------------------
(* Properties *)

\* C1: after n rows were recorded under the row protocol into an empty table
\* directory with every call returning Ok, a flush() leaves the buffer empty
\* and the closed files, read in ascending index order, hold exactly the n
\* rows in the order they were recorded, each as its value's encoding.
C1_FlushedRowsReadBack ==
    (pc = "idle" /\ Clean /\ w.enabled /\ StartedEmpty) =>
        LET o == Flush(w, buf, dir, NoFault, TRUE)
        IN  /\ o.res = "ok"
            /\ BufIsEmpty(o.buf)
            /\ ReadFrom(o.dir, 0, FALSE) = ExpectedRows(hist.recorded)

C1_Witness ==
    /\ pc = "idle" /\ Clean /\ w.enabled /\ StartedEmpty
    /\ hist.rolled
    /\ BufIsEmpty(buf)
    /\ Len(hist.recorded) = MaxRows
    /\ Len(hist.created) >= 2
    /\ \E i \in 1..MaxRows : hist.recorded[i].opts = <<FALSE>>
    /\ ReadFrom(dir, 0, FALSE) = ExpectedRows(hist.recorded)

\* C2: between rows, after calls that all returned Ok, every recorded row is
\* in exactly one place: the rows of the files the writer closed, followed by
\* the rows of the buffer, are the recorded rows, so their counts add up to
\* the number of rows recorded.
C2_EveryRowInOnePlace ==
    (BetweenRows /\ Clean /\ w.enabled) =>
        /\ LanesEqual(buf)
        /\ ReadFrom(dir, 0, TRUE) \o BufferedRows(buf) = ExpectedRows(hist.recorded)
        /\ Len(ReadFrom(dir, 0, TRUE)) + BufLen(buf) = Len(hist.recorded)

C2_Witness ==
    /\ pc = "idle" /\ Clean /\ w.enabled
    /\ MyFiles(dir) # {}
    /\ ~BufIsEmpty(buf)
    /\ Len(hist.recorded) = MaxRows

\* C3: in every writer state between rows all lanes have the same length,
\* the length buffer.len() reports, and once a row was recorded the cursor
\* equals the number of lanes.
C3_LanesInStep ==
    (BetweenRows /\ Proto /\ w.enabled) =>
        /\ \A i \in 1..Len(buf.rows) : Len(buf.rows[i]) = BufLen(buf)
        /\ CursorAtEnd(buf)

\* C4: for every type of the table and every value of it, append pushes as
\* many Fields as schema emits leaves (whenever schema returns, under either
\* prefix), each Field of a tag its leaf's column takes, and field_count
\* returns that same number on every call, from the memo or not.
C4_AppendMatchesSchema ==
    /\ (probe.op = "append" /\ probe.ok) =>
           \A prefix \in {NoPrefix, SomePrefix("p")} :
               LET s == Schema(probe.t, prefix, "none", "none")
               IN  s.ok =>
                       /\ probe.count = Len(s.leaves)
                       /\ \A i \in 1..probe.count :
                              probe.tags[i] \in TagsOf(s.leaves[i].phys) \cup {"Null"}
    /\ (probe.op = "field_count" /\ probe.ok) =>
           /\ CountLeaves(probe.t).ok
           /\ probe.count = Len(CountLeaves(probe.t).leaves)
           /\ \A n \in 1..MaxSeed, opts \in env.opts :
                  LET st == AppendValue(probe.t, n, AppendState(<<>>, opts, memo))
                  IN  st.ok => Len(st.out) = probe.count
    /\ \A name \in DOMAIN memo.map :
           memo.map[name] = Len(CountLeaves(TypeNamed(name)).leaves)

C4_Witness ==
    /\ probe.op = "append" /\ probe.ok
    /\ probe.t = T_Book
    /\ probe.count = Len(Schema(T_Book, NoPrefix, "none", "none").leaves)
    /\ probe.count = 10
    /\ probe.tags[5] = "Null" /\ probe.tags[6] = "Null"
    /\ "(f64, f64)" \in DOMAIN memo.map

\* C5: in every reachable state, also after a flush that returned an error, a
\* row is fully buffered or fully absent (the lanes are equally long) and
\* every column chunk of a file the writer closed has the same number of rows.
C5_RowsWhole ==
    (Proto /\ pc # "none") =>
        /\ LanesEqual(buf)
        /\ \A name \in MyFiles(dir) :
               \A c \in 1..Len(dir[name].chunks) :
                   Len(dir[name].chunks[c].defs) = RowsIn(dir[name])

\* C6: a step that records a value creates no file and drains no lane, also
\* when the buffer has reached flush_size: the threshold is tested by begin()
\* before the row and by end() / flush_if_needed() after it.
C6_NoFlushInsideRow ==
    [][Len(hist'.recorded) > Len(hist.recorded) =>
          /\ dir' = dir
          /\ w'.file_index = w.file_index
          /\ Len(buf'.rows) >= Len(buf.rows)
          /\ \A i \in 1..Len(buf.rows) : Len(buf'.rows[i]) >= Len(buf.rows[i])]_vars

C6_Witness ==
    /\ pc = "recorded" /\ Clean /\ w.enabled
    /\ BufLen(buf) >= w.flush_size
    /\ BufLen(buf) >= 2

\* C7: with auto_flush on and flush size F, n rows recorded under the row
\* protocol into an empty directory and then flushed (or the writer dropped),
\* with no flush() call in between, make ceil(n/F) files: F rows in each of
\* the first floor(n/F), the remaining n mod F in the last.
C7_RollLayout ==
    (Clean /\ w.enabled /\ w.auto_flush /\ ~hist.rolled /\ StartedEmpty) =>
        /\ pc = "dropped" => RollLayout(dir, Len(hist.recorded), w.flush_size)
        /\ pc = "idle" =>
               RollLayout(Flush(w, buf, dir, NoFault, TRUE).dir,
                          Len(hist.recorded), w.flush_size)

C7_Witness ==
    /\ pc = "dropped" /\ Clean /\ w.enabled /\ w.auto_flush /\ ~hist.rolled
    /\ w.flush_size = RollFlushSize
    /\ Len(hist.recorded) = 2 * RollFlushSize + 1
    /\ DOMAIN dir = {FileName(0), FileName(1), FileName(2)}
    /\ RowsIn(dir[FileName(0)]) = RollFlushSize
    /\ RowsIn(dir[FileName(1)]) = RollFlushSize
    /\ RowsIn(dir[FileName(2)]) = 1

C9_NewIndexAboveExisting ==
    [][\A name \in (DOMAIN dir') \ (DOMAIN dir) :
          /\ \E i \in 0..MaxIndex : name = FileName(i)
          /\ \A other \in DOMAIN dir : IndexOf(name) > IndexOf(other)]_vars

C11_FlushTouchesOnlyItsOwnFile ==
    [][InFlush =>
          /\ \A n \in DOMAIN run.before :
                 n \in DOMAIN dir' /\ dir'[n] = run.before[n]
          /\ \A n \in DOMAIN dir :
                 dir[n].old => (n \in DOMAIN dir' /\ dir'[n] = dir[n])
          /\ pc' = "crashed" =>
                 Cardinality({n \in (DOMAIN dir') \ (DOMAIN run.before) :
                                 ~dir'[n].old /\ ~dir'[n].closed}) <= 1
          /\ (pc = "named" /\ pc' \notin {"named", "crashed"}
                 /\ run.name \in DOMAIN dir) =>
                 (pc' = "idle" /\ hist'.lastRes = "err" /\ dir' = dir)]_vars

C11_Witness ==
    /\ pc = "crashed"
    /\ hist.lastRes = "err" /\ hist.lastErr = "IOError"
    /\ run.name \in DOMAIN dir
    /\ ~dir[run.name].old /\ ~dir[run.name].closed
    /\ Len(dir[run.name].chunks) = 1
    /\ \E n \in DOMAIN dir : dir[n].old /\ n \notin DOMAIN OldDir({0, 2})

\* C12: flush() on a writer whose buffer is empty returns Ok, creates no file
\* and leaves the writer (file_index, schema, fields) and the buffer as they
\* are, whatever the filesystem would do; and RowBuffer::record on an empty
\* buffer returns Ok(0) with no row group written and the lanes as they are,
\* in a release and in a debug build.
C12_EmptyFlushIsNoOp ==
    (pc = "idle" /\ BufIsEmpty(buf) /\ CursorAtEnd(buf) /\ LanesEqual(buf)) =>
        /\ \A at \in {"none", "create", "serializer", "close"}, dbg \in BOOLEAN :
               Flush(w, buf, dir, Fault(at, 0), dbg) = Out("ok", "", w, buf, dir, "")
        /\ \A dbg \in BOOLEAN :
               RowBufferRecord(buf, w.schema.leaves, 0, FALSE, dbg)
                   = RecOut("ok", buf.rows, <<>>)

\* C13: on a writer that is not enabled every operation (begin, record, end,
\* flush_if_needed, flush, drop), in any order and for any number of rows,
\* returns Ok and changes nothing: the buffer stays empty, fields stays
\* empty, the schema stays unset, file_index stays 0, the field_count memo
\* and the table directory stay as they are.
C13_DisabledWriterDoesNothing ==
    [][(pc \notin {"none", "failed"} /\ ~w.enabled) =>
          /\ hist'.lastRes = "ok" /\ hist'.lastErr = ""
          /\ pc' # "panicked"
          /\ buf' = EmptyBuffer
          /\ w'.fields = <<>> /\ ~w'.schema.some /\ w'.file_index = 0
          /\ ~w'.enabled
          /\ memo' = memo
          /\ dir' = dir /\ dirExists' = dirExists]_vars

C13_Witness ==
    /\ pc = "dropped" /\ ~w.enabled
    /\ cfg.directory = "out" /\ cfg.tables = {"u"}
    /\ Len(hist.recorded) = MaxOtherRows
    /\ hist.misuse = MaxMisuse
    /\ buf = EmptyBuffer /\ w.file_index = 0
    /\ \A n \in DOMAIN dir : dir[n].old

\* C14: TableWriter::new removes the table directory (keep = false) and
\* creates it when the writer is enabled, and only then: constructing a
\* writer that is not enabled (empty directory option, or a whitelist that
\* does not name the table) removes no file and creates no directory.
C14_NewTouchesDiskOnlyWhenEnabled ==
    [][pc = "none" =>
          /\ (Enabled(cfg) /\ ~cfg.keep) => dir' = EmptyDir
          /\ (Enabled(cfg) /\ cfg.keep) => dir' = dir
          /\ (Enabled(cfg) /\ pc' = "idle") => dirExists'
          /\ ~Enabled(cfg) => (dir' = dir /\ dirExists' = dirExists)]_vars

\* C15: a constructed writer is enabled exactly when the whitelist is empty
\* or names its table and the directory option is not the empty string, and
\* stays so for the whole session; PersistConfig::new(directory, table) has
\* that directory, keep = false and a whitelist of that one table, so the
\* writer of table t under it is enabled exactly when it names t and a
\* directory.
C15_EnabledRule ==
    /\ pc \notin {"none", "failed"} =>
           (w.enabled <=> ((cfg.tables = {} \/ "t" \in cfg.tables) /\ cfg.directory # ""))
    /\ \A d \in {"", "out"}, t \in {"t", "u"} :
           /\ PersistConfigNew(d, t).directory = d
           /\ PersistConfigNew(d, t).keep = FALSE
           /\ PersistConfigNew(d, t).tables = {t}
           /\ PersistConfigNew(d, t) \in Configs
           /\ cfg = PersistConfigNew(d, t) /\ pc \notin {"none", "failed"} =>
                  (w.enabled <=> (t = "t" /\ d = "out"))

C15_Witness ==
    /\ pc = "dropped"
    /\ cfg = PersistConfigNew("out", "t")
    /\ w.enabled
    /\ MyFiles(dir) # {}

\* C16: the schema is set once and for all: an end() on an enabled writer
\* leaves it set (the first one sets it, to the fields gathered so far, and
\* nothing but an end() sets it); once it is set, no begin, record, end,
\* flush, flush_if_needed or drop changes the schema or the fields list; and
\* the fields list only ever grows at its end, while the schema is unset.
C16_SchemaFreezesOnce ==
    [][/\ w.schema.some => (w'.schema = w.schema /\ w'.fields = w.fields)
       /\ (w.enabled /\ pc' = "ended") => w'.schema.some
       /\ (~w.schema.some /\ w'.schema.some) =>
              /\ pc \in {"begun", "recorded", "ended"}
              /\ pc' \in {"ended", "panicked"}
              /\ w'.schema.leaves = w.fields
              /\ w'.fields = w.fields
       /\ Len(w'.fields) >= Len(w.fields)
       /\ SubSeq(w'.fields, 1, Len(w.fields)) = w.fields]_vars

C16_Witness ==
    /\ pc = "recorded" /\ w.enabled
    /\ w.schema.some
    /\ w.schema.leaves # <<>>
    /\ w.fields = w.schema.leaves
    /\ Len(hist.recorded) = MaxRows
    /\ hist.recorded[MaxRows].t = T_Msg

\* C17: once the schema of an enabled writer is set and a value was recorded,
\* the schema is the leaf list T::schema(None, None, None) of the type of the
\* first value recorded, whatever calls came before that record, and every
\* file the writer made carries exactly those leaves.
C17_SchemaOfFirstRecord ==
    (w.enabled /\ w.schema.some /\ hist.recorded # <<>> /\ pc # "panicked") =>
        /\ w.schema.leaves = Schema(hist.recorded[1].t, NoPrefix, "none", "none").leaves
        /\ \A n \in DOMAIN dir :
               ~dir[n].old =>
                   dir[n].schema
                       = Schema(hist.recorded[1].t, NoPrefix, "none", "none").leaves

\* the step is a drop of an enabled writer that returned
Dropped == pc = "idle" /\ pc' = "dropped" /\ w.enabled

\* the step made a closed file that holds exactly the rows of the buffer
EmitsBuffer ==
    /\ LanesEqual(buf)
    /\ \E n \in (DOMAIN dir') \ (DOMAIN dir) :
           dir'[n].closed /\ ReadRows(dir'[n]) = BufferedRows(buf)

FaultsOf(b) ==
    {NoFault, Fault("create", 0), Fault("serializer", 0), Fault("close", 0)}
        \cup {Fault("column", k) : k \in 1..Len(b.rows)}

\* C19: in every state an idle writer can be in (schema unset, lanes of
\* unequal length, more lanes than schema leaves) and whatever the filesystem
\* does, in a release and in a debug build, dropping the writer does not
\* panic and returns: a failure of its flush is logged and nothing else.
C19_DropNeverPanics ==
    pc = "idle" =>
        \A f \in FaultsOf(buf), dbg \in BOOLEAN :
            DropWriter(w, buf, dir, f, dbg).res = "ok"

\* the writer is at its threshold
AtThreshold == w.enabled /\ BufLen(buf) >= w.flush_size

\* begin(), flush_if_needed() and end() return the outcome of their flush
\* whenever that flush returns an error
InnerFlushErrorReturned ==
    /\ (pc = "idle" /\ AtThreshold) =>
           \A f \in FaultsOf(buf), dbg \in BOOLEAN :
               \A fl \in {Flush(w, buf, dir, f, dbg)} :
                   fl.res = "err" =>
                       /\ BeginRow(w, buf, dir, f, dbg) = fl
                       /\ FlushIfNeeded(w, buf, dir, f, dbg) = fl
    /\ (pc \in {"begun", "recorded", "ended"} /\ AtThreshold /\ w.auto_flush) =>
           \A f \in FaultsOf(buf), dbg \in BOOLEAN :
               \A fl \in {Flush(Frozen(w), buf, dir, f, dbg)} :
                   fl.res = "err" => EndRow(w, buf, dir, f, dbg) = fl

\* a step that met an I/O failure returns an error; no step tries twice
FailedStepReturnsError ==
    /\ (pc # "none" /\ faults' > faults) =>
           /\ hist'.lastErr # ""
           /\ hist'.lastRes = IF pc' = "dropped" THEN "ok" ELSE "err"
           /\ ~hist'.allOk
           /\ pc = "idle" => pc' \in {"idle", "dropped"}
           /\ hist'.lastErr = "IOError" => dir' = dir
    /\ pc # "none" =>
           /\ Cardinality((DOMAIN dir') \ (DOMAIN dir)) <= 1
           /\ w'.file_index \in {w.file_index, ScanFrom(w.file_index, dir) + 1}
    /\ (pc = "none" /\ faults' > faults) =>
           /\ pc' = "failed"
           /\ w' = NoWriter
           /\ hist'.lastRes = "err"

\* C20: errors reach the caller and nothing is tried twice. When the flush
\* inside begin(), flush_if_needed() or end() fails, the call returns that
\* flush's error and outcome (begin() opens no row); a step that met an I/O
\* failure returns an error (the drop logs it); a step creates at most one
\* file, moves file_index past one free name at most, and creates nothing
\* when its create failed; and when the table directory cannot be created,
\* TableWriter::new returns an error and no writer exists.
C20_ErrorsPropagateNoRetry ==
    []InnerFlushErrorReturned /\ [][FailedStepReturnsError]_vars

C20_Witness ==
    /\ pc = "ended" /\ w.enabled
    /\ hist.lastRes = "err" /\ hist.lastErr = "IOError"
    /\ faults = 1
    /\ BufLen(buf) >= w.flush_size
    /\ w.file_index = 1
    /\ dir = EmptyDir

\* C21: every step in which a filesystem operation of the writer failed
\* (creating the directory, creating the file, writing the file's header or
\* a column, closing the file) reports an error of the I/O kind.
C21_FilesystemFailuresAreIo ==
    [][faults' > faults => hist'.lastErr = "IOError"]_vars

\* a Field tag matches a physical type
Matches(tag, phys) ==
    \/ tag = "Bool" /\ phys = "BOOLEAN"
    \/ tag \in {"Int", "UInt"} /\ phys = "INT32"
    \/ tag \in {"Long", "ULong"} /\ phys = "INT64"
    \/ tag = "Float" /\ phys = "FLOAT"
    \/ tag = "Double" /\ phys = "DOUBLE"
    \/ tag = "Str" /\ phys = "BYTE_ARRAY"

\* the lanes that hold a Field, not Null, whose tag does not match their column
MismatchedLanes(b, schema) ==
    {k \in 1..Len(b.rows) :
        /\ k <= Len(schema)
        /\ \E i \in 1..Len(b.rows[k]) :
               /\ b.rows[k][i].tag # "Null"
               /\ ~Matches(b.rows[k][i].tag, schema[k].phys)}

C23_SingleTypedWriterNeverFails ==
    /\ hist.allOk
    /\ pc # "panicked"
    /\ w.schema.some => MismatchedLanes(buf, w.schema.leaves) = {}

\* what Option<T>::schema left in the sink is T's own leaves: as many, with
\* the names, physical types and logical types T::schema gives them
SameLeavesButRepetition(ls, ms) ==
    /\ Len(ls) = Len(ms)
    /\ \A i \in 1..Len(ls) :
           /\ ls[i].name = ms[i].name
           /\ ls[i].phys = ms[i].phys
           /\ ls[i].logical = ms[i].logical

OptionSchemaIsOptionalT ==
    probe.op = "option_schema" =>
        \A s \in {Schema(probe.t, probe.prefix, probe.rep, probe.logical)} :
            /\ probe.ok = s.ok
            /\ probe.ok =>
                   /\ SameLeavesButRepetition(probe.leaves, s.leaves)
                   /\ \A i \in 1..probe.count : probe.leaves[i].rep = "OPTIONAL"

NoneAppendsFieldCountNulls ==
    (probe.op = "option_append" /\ probe.opts # <<>> /\ ~Head(probe.opts)) =>
        \A fc \in {field_count(probe.t, probe.before)} :
            /\ probe.ok = fc.ok
            /\ probe.ok =>
                   /\ probe.count = fc.count
                   /\ fc.count = Len(CountLeaves(probe.t).leaves)
                   /\ \A i \in 1..probe.count : probe.out[i] = Null

SomeAppendsItsValue ==
    (probe.op = "option_append" /\ (probe.opts = <<>> \/ Head(probe.opts))) =>
        \A st \in {AppendValue(probe.t, probe.n,
                                AppendState(<<>>,
                                            IF probe.opts = <<>> THEN <<>>
                                            ELSE Tail(probe.opts),
                                            probe.before))} :
            /\ probe.ok = st.ok
            /\ probe.ok => (probe.out = st.out /\ memo = st.memo)

\* C24: for every type T of the table, Option<T>::schema emits exactly T's
\* leaves, each of them OPTIONAL at whatever depth it sits; appending None
\* pushes T::field_count() Nulls and nothing else; appending Some(v) pushes
\* what v.append pushes.
C24_OptionWrapsItsType ==
    /\ OptionSchemaIsOptionalT
    /\ NoneAppendsFieldCountNulls
    /\ SomeAppendsItsValue

C24_Witness ==
    /\ probe.op = "option_append"
    /\ probe.t = T_Book
    /\ probe.opts = <<FALSE>>
    /\ probe.ok
    /\ probe.out = [i \in 1..10 |-> Null]
    /\ "Book" \in DOMAIN memo.map

\* the leaves of the fields of a derived record that are not marked
\* ignore = true, in declaration order
RECURSIVE KeptLeaves(_, _)
KeptLeaves(fs, i) ==
    IF i > Len(fs) THEN <<>>
    ELSE IF fs[i].ignore THEN KeptLeaves(fs, i + 1)
    ELSE CountLeaves(fs[i].ty).leaves \o KeptLeaves(fs, i + 1)

IsDerivedRecord(t) == TypeTable[t].kind \in {"struct", "tstruct"}

\* C25: for every derived record, named or tuple, schema emits and append
\* pushes the columns of the fields that are not marked ignore = true, in
\* declaration order, and nothing for an ignored field (wherever the schemas
\* of its fields build).
C25_IgnoredFieldsLeaveNoTrace ==
    (/\ probe.op \in {"schema", "append"}
     /\ probe.ok
     /\ IsDerivedRecord(probe.t)
     /\ CountLeaves(probe.t).ok) =>
        \A kept \in {KeptLeaves(TypeTable[probe.t].fields, 1)} :
            /\ probe.count = Len(kept)
            /\ probe.op = "schema" =>
                   \A i \in 1..Len(kept) : probe.leaves[i].phys = kept[i].phys
            /\ probe.op = "append" =>
                   \A i \in 1..Len(kept) :
                       probe.tags[i] = "Null" \/ Matches(probe.tags[i], kept[i].phys)

\* the label path so far ("" at the top) with one more label
PathJoin(path, label) == IF path = "" THEN label ELSE path \o "_" \o label

RECURSIVE LeafPaths(_, _, _)
RECURSIVE FieldPaths(_, _, _, _, _)
RECURSIVE ElementPaths(_, _, _, _, _)

\* the names of the leaves the fields from i on contribute: a named field
\* is labelled by its name (none for an ignored one), a tuple-struct field
\* by its index
FieldPaths(fs, i, path, named, bare) ==
    IF i > Len(fs) THEN <<>>
    ELSE IF named /\ fs[i].ignore THEN FieldPaths(fs, i + 1, path, named, bare)
    ELSE LeafPaths(fs[i].ty,
                   PathJoin(path, IF named THEN fs[i].name ELSE ToString(i - 1)),
                   bare)
         \o FieldPaths(fs, i + 1, path, named, bare)

\* the names of the leaves of the array elements i .. n - 1
ElementPaths(elem, i, n, path, bare) ==
    IF i >= n THEN <<>>
    ELSE LeafPaths(elem, PathJoin(path, ToString(i)), bare)
         \o ElementPaths(elem, i + 1, n, path, bare)

\* the leaf names of type t under the label path `path`: the path joined by
\* "_", with _ns after a Duration; bare = a pair that is not itself under a
\* label leaves its two elements unlabelled
LeafPaths(t, path, bare) ==
    LET d == TypeTable[t]
    IN  CASE d.kind = "duration" -> <<path \o "_ns">>
          [] d.kind = "opt" -> LeafPaths(d.a, path, bare)
          [] d.kind = "pair" ->
                IF bare /\ path = ""
                THEN LeafPaths(d.a, path, bare) \o LeafPaths(d.b, path, bare)
                ELSE LeafPaths(d.a, PathJoin(path, "0"), bare)
                     \o LeafPaths(d.b, PathJoin(path, "1"), bare)
          [] d.kind = "arr" -> ElementPaths(d.a, 0, d.n, path, bare)
          [] d.kind = "struct" -> FieldPaths(d.fields, 1, path, TRUE, bare)
          [] d.kind = "tstruct" -> FieldPaths(d.fields, 1, path, FALSE, bare)
          [] d.kind = "enum" -> <<IF path = "" THEN d.name ELSE path>>
          [] OTHER -> <<path>>

\* the leaves of the probed schema call carry the names of LeafPaths
NamedByPath(bare) ==
    (probe.op = "schema" /\ probe.ok) =>
        \E prefix \in {NoPrefix, SomePrefix("p")} :
            /\ Schema(probe.t, prefix, "none", "none") = SchemaOk(probe.leaves)
            /\ [i \in 1..probe.count |-> probe.leaves[i].name]
                   = LeafPaths(probe.t, IF prefix.some THEN prefix.s ELSE "", bare)

\* the example of the specification: the field tob of Book
TobExample ==
    (probe.op = "schema" /\ probe.ok /\ probe.t = T_Book
        /\ Schema(T_Book, NoPrefix, "none", "none") = SchemaOk(probe.leaves)) =>
        SubSeq([i \in 1..probe.count |-> probe.leaves[i].name], 1, 4)
            = <<"tob_0_price", "tob_0_quantity", "tob_1_price", "tob_1_quantity">>

\* C26 as stated: every leaf name is the path of labels joined by "_", a
\* pair element contributing its index wherever the pair stands.
C26_LeafNamesArePaths ==
    NamedByPath(FALSE) /\ TobExample

\* C26: every leaf name is the path of labels joined by "_" (field name;
\* index of a tuple-struct field, of an array element, of an element of a
\* pair that stands under a label; _ns after a Duration), and a pair that
\* is given no prefix hands none to its elements, which are then named as
\* if they stood alone; tob of Book yields tob_0_price, tob_0_quantity,
\* tob_1_price, tob_1_quantity.
C26_LeafNamesArePathsUnderPrefix ==
    NamedByPath(TRUE) /\ TobExample

C26_Witness ==
    /\ probe.op = "schema" /\ probe.ok /\ probe.t = T_Book
    /\ probe.count = 10
    /\ probe.leaves[1].name = "tob_0_price"
    /\ probe.leaves[4].name = "tob_1_quantity"
    /\ probe.leaves[5].name = "x_0"
    /\ probe.leaves[10].name = "lots_1"

\* `v as u32`, `v as i64 as u64`: the stored signed value read unsigned
AsUnsigned(v, modulus) == v % modulus

\* the one value of the one chunk a written lane left
WrittenValue == probe.chunks[1].vals[1].num

\* the width of the column an integer tag goes to
ColumnOf(tag) == IF tag \in {"Int", "UInt"} THEN "INT32" ELSE "INT64"
ModulusOf(tag) == IF tag \in {"Int", "UInt"} THEN TwoTo32 ELSE TwoTo64

\* C27: an Int or UInt Field is written to an INT32 column and a Long or
\* ULong Field to an INT64 column; the value stored is signed, of the width
\* of the column, the Field's own value for a signed tag and for an unsigned
\* one the value with the same bits, so that read as unsigned it is the
\* Field's value again.
C27_UnsignedKeepsItsBits ==
    (probe.op = "record" /\ probe.phys = ColumnOf(probe.f.tag)) =>
        /\ probe.res = "ok"
        /\ Len(probe.chunks) = 1 /\ Len(probe.chunks[1].vals) = 1
        /\ WrittenValue >= -(ModulusOf(probe.f.tag) \div 2)
        /\ WrittenValue < ModulusOf(probe.f.tag) \div 2
        /\ probe.f.tag \in {"Int", "Long"} => WrittenValue = probe.f.num
        /\ AsUnsigned(WrittenValue, ModulusOf(probe.f.tag))
               = AsUnsigned(probe.f.num, ModulusOf(probe.f.tag))
        /\ probe.f.tag \in {"UInt", "ULong"} =>
               AsUnsigned(WrittenValue, ModulusOf(probe.f.tag)) = probe.f.num

C27_Witness ==
    /\ probe.op = "record"
    /\ probe.f = Fd("UInt", TwoTo32 - 1, "")
    /\ probe.phys = "INT32"
    /\ probe.res = "ok"
    /\ WrittenValue = -1

\* a nanosecond count an i64 holds
FitsI64(n) == n >= -TwoTo63 /\ n < TwoTo63

\* the timestamp half: one ULong, the count since the epoch (for an instant
\* before the epoch the u64 of the same bits), 0 for a count no i64 holds
TimestampPushesNanos ==
    (probe.op = "append_time" /\ probe.t = T_DateTime) =>
        /\ probe.ok
        /\ Len(probe.out) = 1
        /\ probe.out[1].tag = "ULong"
        /\ FitsI64(probe.n) => probe.out[1].num = AsUnsigned(probe.n, TwoTo64)
        /\ (FitsI64(probe.n) /\ probe.n >= 0) => probe.out[1].num = probe.n
        /\ ~FitsI64(probe.n) => probe.out[1].num = 0

\* the Duration half: one ULong, the total of nanoseconds
DurationPushesNanos ==
    (probe.op = "append_time" /\ probe.t = T_Duration) =>
        /\ probe.ok
        /\ Len(probe.out) = 1
        /\ probe.out[1] = Fd("ULong", probe.n, "")

\* C28: appending a UTC timestamp pushes ULong(nanoseconds since the epoch),
\* ULong(0) when the count does not fit an i64; appending a Duration pushes
\* ULong(its total nanoseconds).
C28_TimesPushNanoseconds ==
    TimestampPushesNanos /\ DurationPushesNanos

\* the Data records among rs
RECURSIVE DataCount(_)
DataCount(rs) ==
    IF rs = <<>> THEN 0
    ELSE (IF Head(rs) = "Data" THEN 1 ELSE 0) + DataCount(Tail(rs))

\* the Sender is dropped
SenderDropped == ~chan.tx

\* the persister received all that was sent, recorded every Data record,
\* flushed and returned Ok
Drained ==
    /\ chan.ps = "ok"
    /\ chan.got = chan.sent
    /\ Len(hist.recorded) = DataCount(chan.sent)
    /\ BufIsEmpty(buf)
    /\ Len(ReadFrom(dir, 0, TRUE)) = DataCount(chan.sent)

\* C29: once the producer has dropped the Sender, the persister in the end
\* has received every queued record in order, recorded each Data record,
\* seen the channel closed, flushed and returned: no queued Data record
\* stays unpersisted.
C29_QueuedRecordsArePersisted == SenderDropped ~> Drained

\* the queue never holds more than its capacity; while the Receiver lives,
\* what was sent is what was received followed by what is queued, and what
\* was received is at all times the front of what was sent
QueueBoundedAndLossless ==
    /\ Len(chan.queue) <= Capacity
    /\ chan.rx => chan.got \o chan.queue = chan.sent
    /\ Len(chan.got) <= Len(chan.sent)
    /\ chan.got = SubSeq(chan.sent, 1, Len(chan.got))

\* a send on a full queue does not complete: the producer stays where it is
ProducerSuspendsWhenFull ==
    (chan.ws = "send" /\ chan.rx /\ Len(chan.queue) >= Capacity) =>
        (chan'.sent = chan.sent /\ chan'.ws = "send" /\ chan'.pending = chan.pending)

\* a receive takes the head of the queue, once
ReceivesTheHead ==
    chan'.got # chan.got =>
        /\ chan.queue # <<>>
        /\ chan'.got = Append(chan.got, Head(chan.queue))
        /\ chan'.queue = Tail(chan.queue)

\* the writer, its buffer and its directory change in steps of the
\* persister only
OnlyPersisterTouchesWriter ==
    (w' # w \/ buf' # buf \/ dir' # dir) =>
        /\ chan.ps \in {"new", "recv", "flush"}
        /\ chan'.ws = chan.ws /\ chan'.sent = chan.sent
        /\ chan'.tx = chan.tx /\ chan'.pending = chan.pending

ChannelSteps ==
    ProducerSuspendsWhenFull /\ ReceivesTheHead /\ OnlyPersisterTouchesWriter

FiniteTable(d) == IsFiniteSet(DOMAIN d) /\ \A n \in DOMAIN d : IndexOf(n) <= MaxIndex

\* the smallest index from i on whose file is not in d
SmallestFree(i, d) ==
    CHOOSE k \in i..(MaxIndex + 1) :
        /\ FileName(k) \notin DOMAIN d
        /\ \A j \in i..(k - 1) : FileName(j) \in DOMAIN d

\* a flush of a non-empty buffer under a frozen schema, whatever it meets
\* afterwards, names its file by the smallest free index from file_index on
\* and leaves file_index one past it, the rest of the writer as it was
ScanTakesSmallestFree ==
    (pc = "idle" /\ w.enabled /\ w.schema.some /\ ~BufIsEmpty(buf)) =>
        \A f \in FaultsOf(buf), dbg \in BOOLEAN :
            \A o \in {Flush(w, buf, dir, f, dbg)}, k \in {SmallestFree(w.file_index, dir)} :
                /\ FiniteTable(dir)
                /\ o.w = [w EXCEPT !.file_index = k + 1]
                /\ o.made \in {"", FileName(k)}
                /\ f.at # "create" => o.made = FileName(k)
                /\ (DOMAIN o.dir) \ (DOMAIN dir) \subseteq {FileName(k)}

\* file_index moves in the turns of the scan loop only, by one a turn; the
\* loop is left at the first name that does not exist, which is the name the
\* flush creates its file under; a flush that then fails leaves file_index
\* where the scan left it
ScanStepsOnly ==
    /\ w'.file_index >= w.file_index
    /\ w'.file_index # w.file_index =>
           /\ pc = "scan"
           /\ w'.file_index = w.file_index + 1
           /\ run'.name = FileName(w.file_index)
           /\ pc' = IF FileName(w.file_index) \in DOMAIN dir THEN "scan" ELSE "named"
    /\ (pc = "named" /\ pc' \in {"idle", "writing"}) =>
           /\ run.name = FileName(w.file_index - 1)
           /\ (DOMAIN dir') \ (DOMAIN dir) \subseteq {run.name}
           /\ pc' = "idle" => (hist'.lastRes = "err" /\ w' = w)

\* a scan under way comes to its end
ScanEnds == (pc = "scan") ~> (pc # "scan")

\* C31: a flush of a non-empty buffer under a frozen schema takes the smallest
\* index i >= file_index whose file does not exist in the table directory and
\* leaves file_index at i + 1, also when the flush fails afterwards; with
\* finitely many files the scan ends; file_index never decreases and no
\* operation but the scan changes it.
C31_ScanTakesFirstFreeIndex ==
    []ScanTakesSmallestFree /\ [][ScanStepsOnly]_vars /\ ScanEnds

C31_Witness ==
    /\ pc = "idle" /\ w.enabled /\ cfg.keep
    /\ hist.lastRes = "err" /\ hist.lastErr = "IOError"
    /\ w.file_index = 2
    /\ ~BufIsEmpty(buf)
    /\ SmallestFree(w.file_index, dir) = 3
    /\ \A n \in DOMAIN dir : dir[n].old

\* the step is an end() / a begin() that returned Ok on an enabled writer
EndReturns == pc \in {"begun", "recorded", "ended"} /\ pc' = "ended" /\ w.enabled
BeginReturns == pc = "idle" /\ pc' = "begun" /\ w.enabled

\* at every row boundary the buffer holds flush_size rows at most, fewer
\* after an end() with auto_flush on
BufferWithinFlushSize ==
    (w.enabled /\ w.flush_size >= 1 /\ hist.allOk) =>
        /\ BetweenRows => BufLen(buf) <= w.flush_size
        /\ (pc = "ended" /\ w.auto_flush) => BufLen(buf) < w.flush_size

\* with auto_flush off end() creates no file and leaves the buffer as it is
\* (it freezes the schema and nothing else); begin() rolls a buffer that has
\* reached flush_size into one new closed file, then opens the row on the
\* emptied lanes, and below the threshold it opens the row and touches no
\* file and no lane
RollsAtRowBoundary ==
    /\ (EndReturns /\ ~w.auto_flush) =>
           /\ dir' = dir
           /\ buf' = buf
           /\ w' = Frozen(w)
           /\ hist'.lastRes = "ok"
    /\ (BeginReturns /\ BufLen(buf) >= w.flush_size) =>
           /\ \E n \in (DOMAIN dir') \ (DOMAIN dir) :
                  /\ (DOMAIN dir') \ (DOMAIN dir) = {n}
                  /\ dir'[n].closed
                  /\ RowsIn(dir'[n]) = BufLen(buf)
           /\ \A i \in 1..Len(buf'.rows) : buf'.rows[i] = <<>>
           /\ buf'.current_col = 0
    /\ (BeginReturns /\ BufLen(buf) < w.flush_size) =>
           /\ dir' = dir
           /\ buf' = BufBegin(buf)
           /\ w' = w

\* C32: for flush_size >= 1 and flushes that succeed, buffer.len() <=
\* flush_size at every row boundary: with auto_flush on, buffer.len() <
\* flush_size after every end(); with auto_flush off, end() creates no file
\* and leaves the buffer unchanged, and the next begin() flushes a buffer
\* that reached the threshold before it opens the new row.
C32_BufferBoundedByFlushSize ==
    []BufferWithinFlushSize /\ [][RollsAtRowBoundary]_vars

C32_Witness ==
    /\ pc = "ended" /\ Clean /\ w.enabled /\ ~w.auto_flush
    /\ w.flush_size = 1
    /\ Len(hist.recorded) = 2
    /\ hist.created = <<FileName(0)>>
    /\ RowsIn(dir[FileName(0)]) = 1
    /\ BufLen(buf) = 1

\* the chunks are one row group of n rows: one chunk a lane, n rows in each
OneRowGroupOf(chunks, lanes, n) ==
    /\ Len(chunks) = lanes
    /\ \A c \in 1..Len(chunks) : Len(chunks[c].defs) = n

\* RowBuffer::record on the non-empty buffer of an idle writer, in either
\* build: when it returns Ok, it returns the number of
\* rows, has written them as one row group, and the lanes are all there and
\* all empty
RecordDrainsIntoOneRowGroup ==
    (pc = "idle" /\ w.enabled /\ w.schema.some /\ ~BufIsEmpty(buf)) =>
        \A dbg \in BOOLEAN :
            \A r \in {RowBufferRecord(buf, w.schema.leaves, 0, FALSE, dbg)} :
                r.res = "ok" =>
                    /\ RecordReturns(buf) >= 1
                    /\ RecordReturns(buf) = Len(BufferedRows(buf))
                    /\ OneRowGroupOf(r.chunks, Len(buf.rows), RecordReturns(buf))
                    /\ Len(r.rows) = Len(buf.rows)
                    /\ \A i \in 1..Len(r.rows) : r.rows[i] = <<>>

\* a flush that returned Ok and made a file leaves the lanes empty and as
\* many, the cursor where it was, so that the next begin() passes its
\* assertion in a debug build too
FlushKeepsLanesAndCursor ==
    (pc = "idle" /\ w.enabled /\ CursorAtEnd(buf)) =>
        \A dbg \in BOOLEAN :
            \A o \in {Flush(w, buf, dir, NoFault, dbg)} :
                (o.res = "ok" /\ o.made # "") =>
                    /\ o.buf = [buf EXCEPT !.rows = [i \in 1..Len(buf.rows) |-> <<>>]]
                    /\ CursorAtEnd(o.buf)
                    /\ BeginRow(o.w, o.buf, o.dir, NoFault, TRUE).res = "ok"

\* every file a flush completed holds one row group with at least one row
FilesHoldOneRowGroup ==
    \A n \in MyFiles(dir) :
        /\ dir[n].chunks # <<>>
        /\ RowsIn(dir[n]) >= 1
        /\ OneRowGroupOf(dir[n].chunks, Len(dir[n].schema), RowsIn(dir[n]))

\* C33: a successful RowBuffer::record returns the number of rows that were
\* buffered, writes them as exactly one row group, and leaves every lane
\* empty with the number of lanes and the cursor unchanged (the next begin()
\* finds current_col equal to the lane count); hence every file produced by
\* a flush holds exactly one row group with at least one row.
C33_RecordWritesOneRowGroup ==
    /\ RecordDrainsIntoOneRowGroup
    /\ FlushKeepsLanesAndCursor
    /\ FilesHoldOneRowGroup

C33_Witness ==
    /\ pc = "begun" /\ Clean /\ w.enabled
    /\ hist.rolled
    /\ Len(hist.created) = 1
    /\ RowsIn(dir[hist.created[1]]) = 2
    /\ Len(buf.rows) = 2
    /\ buf.rows = <<<<>>, <<>>>>
    /\ buf.current_col = 0

\* persister::run has returned or unwound
PersisterEnded == chan.ps \in {"ok", "err", "panicked"}

\* the persister has received an Error record
ErrorReceived == \E i \in 1..Len(chan.got) : chan.got[i] = "Error"

\* the flush() calls made as run leaves its loop: the one of run and, when
\* that one leaves rows in the buffer, the one of the writer's Drop
ExitFlushes(f, dbg) == IF BufIsEmpty(Flush(w, buf, dir, f, dbg).buf) THEN 1 ELSE 2

\* an Error record is the last record the persister receives, and receiving
\* it takes the persister out of its loop
ErrorIsLastReceived ==
    ErrorReceived =>
        /\ chan.got[Len(chan.got)] = "Error"
        /\ \A i \in 1..(Len(chan.got) - 1) : chan.got[i] # "Error"
        /\ chan.ps = "flush" \/ PersisterEnded

\* the steps of the two tasks around a Skip, an Error and the end of run
ErrorEndsBothTasks ==
    /\ chan'.got = Append(chan.got, "Skip") =>
           /\ w' = w /\ buf' = buf /\ dir' = dir /\ memo' = memo
           /\ hist'.recorded = hist.recorded
           /\ chan'.ps = "recv"
    /\ chan'.got = Append(chan.got, "Error") =>
           /\ w' = w /\ buf' = buf /\ dir' = dir
           /\ chan'.ps = "flush"
    /\ chan.ps \notin {"new", "recv"} =>
           /\ chan'.got = chan.got
           /\ hist'.recorded = hist.recorded
           /\ chan'.ps # "recv"
           /\ Len(chan'.queue) >= Len(chan.queue)
    /\ (chan.ps = "flush" /\ chan'.ps # "flush") =>
           /\ chan'.ps \in {"ok", "err", "panicked"}
           /\ ~chan'.rx
           /\ Cardinality((DOMAIN dir') \ (DOMAIN dir)) <= 1
    /\ PersisterEnded =>
           /\ ~chan.rx
           /\ chan'.ps = chan.ps
           /\ w' = w /\ buf' = buf /\ dir' = dir
           /\ chan'.sent = chan.sent /\ chan'.queue = chan.queue
    /\ (PersisterEnded /\ chan.ws = "send" /\ chan'.ws # "send") =>
           /\ chan'.ws = "err"
           /\ ~chan'.tx

\* on a filesystem that works, the flush run makes after its loop returns Ok
\* and empties the buffer
ExitFlushDrains ==
    chan.ps = "flush" =>
        \A dbg \in BOOLEAN :
            \A o \in {Flush(w, buf, dir, NoFault, dbg)} :
                /\ o.res = "ok"
                /\ BufIsEmpty(o.buf)
                /\ ReadFrom(o.dir, 0, TRUE) = ExpectedRows(hist.recorded)

OneRecordType == \A i, j \in 1..Len(hist.recorded) : hist.recorded[i].t = hist.recorded[j].t

\* C35: whenever a writer that records values of one record type would flush
\* (buffer not empty, schema frozen), the buffer has as many lanes as the
\* frozen schema has leaves, after every call sequence the API permits (end()
\* with no record, a builder dropped without end(), record() again after
\* end()); so the flush (of a release build, where that unwrap is the one
\* panic it has) does not panic at next_column().unwrap() and leaves no
\* column of the schema unwritten.
C35_LanesMatchSchemaAtFlush ==
    (pc = "idle" /\ w.enabled /\ w.schema.some /\ ~BufIsEmpty(buf) /\ OneRecordType) =>
        /\ Len(buf.rows) = Len(w.schema.leaves)
        /\ \A o \in {Flush(w, buf, dir, NoFault, FALSE)} :
               /\ o.res # "panic"
               /\ o.res = "ok" => Len(o.dir[o.made].chunks) = Len(w.schema.leaves)

\* C36: when flush() returns an error (the create failed, the serializer
\* could not be built, a column write failed, the close failed), the buffer
\* holds exactly the rows it held before the call, every lane unchanged, so
\* that a later flush() on a filesystem that works persists every one of them.
C36_FailedFlushKeepsRows ==
    (pc = "idle" /\ Proto /\ w.enabled /\ w.schema.some /\ ~BufIsEmpty(buf)) =>
        \A f \in FaultsOf(buf) :
            \A o \in {Flush(w, buf, dir, f, FALSE)} :
                o.res = "err" =>
                    /\ o.buf = buf
                    /\ BufLen(o.buf) = BufLen(buf)
                    /\ \A again \in {Flush(o.w, o.buf, o.dir, NoFault, FALSE)} :
                           /\ again.res = "ok"
                           /\ ReadRows(again.dir[again.made]) = BufferedRows(buf)

\* rows are buffered and the schema is not frozen
UnfrozenWithRows == w.enabled /\ ~w.schema.some /\ ~BufIsEmpty(buf)

\* flush() then returns Other("schema has not been created") whatever the
\* filesystem would do, and leaves writer, buffer and directory as they are
UnfrozenFlushIsRefused ==
    (pc = "idle" /\ UnfrozenWithRows) =>
        \A f \in FaultsOf(buf), dbg \in BOOLEAN :
            /\ Flush(w, buf, dir, f, dbg) = Out("err", "Other", w, buf, dir, "")
            /\ FlushErrorText(w, buf, dir, f) = "schema has not been created"

\* no call made on the writer in that state creates a file or changes
\* fields, file_index or a lane, and a call that fails fails with Other
UnfrozenStepsKeepAll ==
    (pc = "idle" /\ UnfrozenWithRows) =>
        /\ dir' = dir
        /\ w' = w
        /\ buf'.rows = buf.rows
        /\ hist'.created = hist.created
        /\ hist'.lastErr \in {"", "Other"}
        /\ pc' = "begun" => BufLen(buf) < w.flush_size

\* the message is that of no other failure of a flush
OtherFailuresSayOtherwise ==
    (pc = "idle" /\ w.enabled /\ w.schema.some /\ ~BufIsEmpty(buf)) =>
        \A f \in FaultsOf(buf) :
            FlushErrorText(w, buf, dir, f) # "schema has not been created"

\* C37: when the buffer is not empty and the schema is not frozen yet (a
\* value was recorded, end() was never called), flush() returns the error
\* Other("schema has not been created"), creates no file and leaves the
\* buffer, fields and file_index as they are.
C37_UnfrozenFlushRefused ==
    /\ [](UnfrozenFlushIsRefused /\ OtherFailuresSayOtherwise)
    /\ [][UnfrozenStepsKeepAll]_vars

C37_Witness ==
    /\ pc = "idle" /\ UnfrozenWithRows
    /\ hist.lastRes = "err" /\ hist.lastErr = "Other"
    /\ BufLen(buf) = 1
    /\ w.fields # <<>>
    /\ w.file_index = 0
    /\ MyFiles(dir) = {}
    /\ \A n \in DOMAIN dir : dir[n].old

\* no two of the leaves carry the same name
DistinctNames(leaves) ==
    \A i, j \in 1..Len(leaves) : i # j => leaves[i].name # leaves[j].name

\* C38: the leaf names of a frozen schema are pairwise distinct, whatever the
\* record type and however the row was composed, several values recorded
\* into one row included.
C38_LeafNamesDistinct ==
    (w.enabled /\ w.schema.some) => DistinctNames(w.schema.leaves)

-----------------------------------------------------------------------------
(* A writer whose rows are each built as begin().record(a).record(b).end(), *)
(* a of the type the table is named for and b of one type for the whole run, *)
(* on a filesystem that works.                                               *)

ComposeRows == 6
ComposeFlushSize == 2

InitCompose ==
    /\ InitCommon
    /\ cfg = PersistConfigNew("out", TableName)
    /\ dir = EmptyDir
    /\ dirExists = FALSE
    /\ \E a \in {T_Tick, T_Msg}, fs \in 1..ComposeFlushSize :
           env = Env(ComposeRows, 0, ComposeRows, a, {T_Tick, T_Msg},
                     {<<TRUE>>, <<FALSE>>}, fs, MaxFiles, TRUE)

\* the values recorded so far fill whole rows
RowsWhole == Len(hist.recorded) % 2 = 0

\* .record(a), right after begin()
RecordFirst ==
    /\ pc = "begun"
    /\ RowsWhole
    /\ Record
    /\ hist'.recorded[Len(hist'.recorded)].t = env.rowType

\* .record(b), right after .record(a)
RecordSecond ==
    /\ pc = "recorded"
    /\ ~RowsWhole
    /\ Record
    /\ Len(hist.recorded) >= 2 =>
           hist'.recorded[Len(hist'.recorded)].t = hist.recorded[2].t

\* .end(), right after .record(b)
EndComposed == pc = "recorded" /\ RowsWhole /\ End

\* the builder of an ended row goes out of scope
DropEnded == pc = "ended" /\ DropBuilder

NextCompose ==
    \/ New
    \/ Begin
    \/ RecordFirst
    \/ RecordSecond
    \/ EndComposed
    \/ DropEnded
    \/ FlushCall
    \/ Drop

SpecCompose == InitCompose /\ [][NextCompose]_vars

\* the leaves T::schema(fields, None, None, None) adds for a value of type t
LeavesOf(t) == Schema(t, NoPrefix, "none", "none").leaves

\* the entries of lane i, none while the lane does not exist
LaneLen(b, i) == IF i \in 1..Len(b.rows) THEN Len(b.rows[i]) ELSE 0

\* the schema is frozen from the first row: a's leaves, then b's
FrozenIsFirstRow ==
    (w.schema.some /\ Len(hist.recorded) >= 2 /\ pc # "panicked") =>
        /\ w.schema.leaves = LeavesOf(hist.recorded[1].t) \o LeavesOf(hist.recorded[2].t)
        /\ w.fields = w.schema.leaves
        /\ Len(buf.rows) = Len(w.schema.leaves)

\* between two rows, and before a row is ended, the lanes are equally long
WholeRowsBuffered ==
    (RowsWhole /\ pc \in {"recorded", "ended", "idle"}) => LanesEqual(buf)

\* a record adds one entry to each lane of its type's leaves (a's lanes come
\* first, b's after them) and to no other; with the schema frozen it leaves
\* the fields list alone
RecordAddsOnePerLeaf ==
    (pc \in {"begun", "recorded"} /\ pc' = "recorded") =>
        LET t == hist'.recorded[Len(hist'.recorded)].t
            from == IF pc = "begun" THEN 0 ELSE Len(LeavesOf(env.rowType))
        IN  /\ Len(buf'.rows) = Len(w'.fields)
            /\ \A i \in 1..Len(buf'.rows) :
                   Len(buf'.rows[i])
                       = LaneLen(buf, i)
                         + (IF i \in (from + 1)..(from + Len(LeavesOf(t))) THEN 1 ELSE 0)
            /\ w.schema.some => w' = w
            /\ ~w.schema.some => w'.fields = w.fields \o LeavesOf(t)

\* C39: when the first row is built as begin().record(a).record(b).end(), the
\* frozen schema is the leaves of a's type followed by the leaves of b's
\* type; every later row built the same way adds exactly one entry to each
\* of those lanes; and no leaf is added to the fields list after the freeze.
C39_ComposedRowFreezesBoth ==
    /\ [](FrozenIsFirstRow /\ WholeRowsBuffered)
    /\ [][RecordAddsOnePerLeaf]_vars

C39_Witness ==
    /\ pc = "recorded" /\ RowsWhole
    /\ w.schema.some
    /\ Len(hist.recorded) >= ComposeRows - 1
    /\ hist.recorded[1].t = T_Tick
    /\ hist.recorded[2].t = T_Msg
    /\ Len(w.schema.leaves) = Len(LeavesOf(T_Tick)) + Len(LeavesOf(T_Msg))
    /\ BufLen(buf) = 2

====
